---- MODULE Spec2Model ----
(***************************************************************************)
(* Model of the git-identity part of zzk: the `zzk git sync` command       *)
(* (cmd/git_sync.go), Sync and its helpers (internal/git/sync.go,          *)
(* identity.go, config.go, backup.go) and DetectIdentity.                  *)
(*                                                                         *)
(* Strings are sequences of tokens (one token per character that matters)  *)
(* so that formatting and parsing of the ownership marker, path expansion  *)
(* and prefix matching are computed the way the code computes them.        *)
(***************************************************************************)
EXTENDS Integers, Sequences, FiniteSets, TLC

\* ------------------------------------------------------------------ bounds

\* Number of `zzk git sync` invocations explored.
MaxRuns == 2

\* Number of failures of the environment (a failing external command or
\* system call) injected in one behaviour.
MaxFaults == 2

\* Number of archives already in the backup directory at the start.
MaxOldBackups == 10

\* ------------------------------------------------------- program constants

\* RotateBackups(backupDir, 10)
KeepBackups == 10

\* ---------------------------------------------------------------- helpers

\* The content of a file that does not exist (every file content is a record).
NoFile == [absent |-> TRUE]

Range(s) == {s[i] : i \in 1..Len(s)}

IsPrefix(p, s) == Len(p) <= Len(s) /\ SubSeq(s, 1, Len(p)) = p

Drop(s, k) == SubSeq(s, k + 1, Len(s))

\* -------------------------------------------------------- identity names

nA == <<"a">>
nB == <<"b">>
nAB == <<"a", "]", "b">>

\* The identity names used as keys of the identity store.
Names == {nA, nB, nAB}

\* An identity name with a path element in it: "./a".
nDotA == <<".", "/", "a">>

\* Every identity name of the model.
IdNames == Names \cup {nDotA}

\* Identity.SSHKeyComment: "<email> [zzk:<name>]".  "[zzk:" is one token.
SSHKeyComment(email, name) == email \o <<" ", "[zzk:">> \o name \o <<"]">>

\* Length of the longest run of tokens other than "]" that starts at s[i].
RECURSIVE RunLen(_, _)
RunLen(s, i) ==
  IF i > Len(s) \/ s[i] = "]" THEN 0 ELSE 1 + RunLen(s, i + 1)

\* regexp `\[zzk:([^\]]+)\]`, leftmost match starting at or after s[i]:
\* <<TRUE, captured group>> or <<FALSE, <<>>>>.
RECURSIVE FindMarker(_, _)
FindMarker(s, i) ==
  IF i > Len(s) THEN <<FALSE, <<>>>>
  ELSE IF s[i] = "[zzk:"
          /\ RunLen(s, i + 1) >= 1
          /\ i + RunLen(s, i + 1) + 1 <= Len(s)
       THEN <<TRUE, SubSeq(s, i + 1, i + RunLen(s, i + 1))>>
       ELSE FindMarker(s, i + 1)

\* IsZZKManagedKey on the content of a public key file.
\* A public key file is "ssh-ed25519 <base64 key> <comment>"; the key type and
\* the base64 text hold no "[", so the search runs over the comment.
IsZZKManagedKey(file) ==
  IF file = NoFile THEN <<FALSE, <<>>>>
  ELSE IF "[zzk:" \notin Range(file.comment) THEN <<FALSE, <<>>>>
  ELSE FindMarker(file.comment, 1)

\* ------------------------------------------------------------------ paths

Home == <<"/", "h">>

\* p[i] is a path element ".": the token "." between two separators or ends.
IsDotElement(p, i) ==
  /\ p[i] = "."
  /\ (i = 1 \/ p[i - 1] = "/")
  /\ (i = Len(p) \/ p[i + 1] = "/")

\* filepath.Clean on the absolute paths of the model: every "." element is
\* dropped with the separator that follows it, and so are trailing separators
\* (the root stays).  filepath.Join ends with Clean.
RECURSIVE Clean(_)
Clean(p) ==
  IF \E i \in 1..Len(p) : IsDotElement(p, i)
  THEN LET i == CHOOSE j \in 1..Len(p) :
                  IsDotElement(p, j) /\ \A k \in 1..(j - 1) : ~IsDotElement(p, k)
       IN  Clean(SubSeq(p, 1, i - 1) \o SubSeq(p, i + 2, Len(p)))
  ELSE IF Len(p) > 1 /\ p[Len(p)] = "/" THEN Clean(SubSeq(p, 1, Len(p) - 1)) ELSE p

\* ExpandPath: "~/rest" becomes filepath.Join(home, rest); anything else is
\* returned as it is.
ExpandPath(path) ==
  IF Len(path) >= 2 /\ path[1] = "~" /\ path[2] = "/"
  THEN Clean(Home \o <<"/">> \o Drop(path, 2))
  ELSE path

\* The directories os.MkdirAll(path) makes sure exist: path and its parents.
Ancestors(path) ==
  LET c == Clean(path)
  IN  {SubSeq(c, 1, i) : i \in {j \in 1..Len(c) : j = Len(c) \/ c[j + 1] = "/"}}

Upper(c) == CASE c = "a" -> "A" [] c = "b" -> "B" [] OTHER -> c

IsLetter(c) == c \in {"a", "b", "A", "B"}

\* cases.Title(language.English): the first letter of every word upper case.
Title(name) ==
  [i \in 1..Len(name) |->
     IF i = 1 \/ ~IsLetter(name[i - 1]) THEN Upper(name[i]) ELSE name[i]]

\* serviceFolder in cleanupIdentity
ServiceFolder(name) == Clean(Home \o <<"/">> \o Title(name))

\* ------------------------------------------------------ identity records

\* Characters of the classes of emailRegex: "c" is a letter, "1" a digit.
LocalChars == {"c", "1", ".", "_", "%", "+", "-"}
DomainChars == {"c", "1", ".", "-"}
AlphaChars == {"c"}

\* emailRegex `^[a-zA-Z0-9._%+-]+@[a-zA-Z0-9.-]+\.[a-zA-Z]{2,}$`
EmailRegexMatch(e) ==
  \E at \in 1..Len(e) : \E dot \in 1..Len(e) :
    /\ e[at] = "@"
    /\ at > 1
    /\ \A i \in 1..(at - 1) : e[i] \in LocalChars
    /\ e[dot] = "."
    /\ dot > at + 1
    /\ \A i \in (at + 1)..(dot - 1) : e[i] \in DomainChars
    /\ Len(e) - dot >= 2
    /\ \A i \in (dot + 1)..Len(e) : e[i] \in AlphaChars

\* Identity.Validate: "" when the record is valid, else the error.
Validate(r) ==
  IF r.user = "" THEN "user must not be empty"
  ELSE IF r.email = <<>> THEN "email must not be empty"
  ELSE IF r.domain = "" THEN "domain must not be empty"
  ELSE IF Len(r.folders) = 0 THEN "at least one folder must be specified"
  ELSE IF ~EmailRegexMatch(r.email) THEN "invalid email address"
  ELSE IF <<>> \in Range(r.folders) THEN "folder path must not be empty"
  ELSE ""

\* Two valid records of the identity store.
R1 == [user |-> "u1", email |-> <<"c", "@", "c", ".", "c", "c">>, domain |-> "d1",
       folders |-> << <<"~", "/", "w">> >>]
R2 == [user |-> "u2", email |-> <<"c", "1", "@", "c", ".", "c", "c">>, domain |-> "d2",
       folders |-> << <<"~", "/", "w", "/", "x">>, <<"~", "/", "A">> >>]

ValidRecs == {R1, R2}

\* Records Validate rejects: a JSON record that lacks a field decodes to the
\* zero value of that field.
BadRecs ==
  { [R1 EXCEPT !.user = ""],
    [R1 EXCEPT !.email = <<>>],
    [R1 EXCEPT !.domain = ""],
    [R1 EXCEPT !.folders = <<>>],
    [R1 EXCEPT !.email = <<"c", "@", "c">>],
    [R1 EXCEPT !.folders = << <<"~", "/", "w">>, <<>> >>] }

\* ------------------------------------------------------ the identity store

\* Contents of ~/.git-identities.json.
StoreAbsent == [kind |-> "absent"]
StoreGarbage == [kind |-> "garbage"]
StoreNoIdentities == [kind |-> "null"]
StoreExample == [kind |-> "example"]

\* The identity maps of the stores that load: none, one or two identities, the
\* same record under two names (a rename), two records under one name.
ValidIdentities ==
  { <<>>,
    (nA :> R1),
    (nB :> R1),
    (nA :> R2),
    (nAB :> R1),
    (nA :> R1) @@ (nB :> R2),
    (nB :> R2) @@ (nAB :> R1) }

ValidStores == {[kind |-> "json", identities |-> f] : f \in ValidIdentities}

\* Stores with one record Validate rejects next to a valid one.
InvalidStores ==
  {[kind |-> "json", identities |-> (nA :> b) @@ (nB :> R1)] : b \in BadRecs}

\* What the user can put in place of the identity store between two runs.
StoreChoices ==
  {StoreAbsent, StoreGarbage, StoreNoIdentities} \cup ValidStores \cup InvalidStores

\* Faulty LoadConfig: a record Validate rejects is skipped and the others are
\* returned.
LoadConfig_SkipsInvalid(st) ==
  IF st.kind = "absent" THEN [err |-> "config file not found", config |-> <<>>]
  ELSE IF st.kind = "garbage" THEN [err |-> "failed to parse config file", config |-> <<>>]
  ELSE IF st.kind = "null" THEN [err |-> "no identities defined in config", config |-> <<>>]
  ELSE [err |-> "",
        config |-> [n \in {m \in DOMAIN st.identities : Validate(st.identities[m]) = ""} |->
                      [name |-> n,
                       user |-> st.identities[n].user,
                       email |-> st.identities[n].email,
                       domain |-> st.identities[n].domain,
                       folders |-> st.identities[n].folders]]]

\* LoadConfig: err is "" on success, and then config maps every name to its
\* record with the map key injected as Name.
LoadConfig(st) ==
  IF st.kind = "absent" THEN [err |-> "config file not found", config |-> <<>>]
  ELSE IF st.kind = "garbage" THEN [err |-> "failed to parse config file", config |-> <<>>]
  ELSE IF st.kind = "null" THEN [err |-> "no identities defined in config", config |-> <<>>]
  ELSE IF \E n \in DOMAIN st.identities : Validate(st.identities[n]) # ""
       THEN [err |-> "invalid identity", config |-> <<>>]
       ELSE [err |-> "",
             config |-> [n \in DOMAIN st.identities |->
                           [name |-> n,
                            user |-> st.identities[n].user,
                            email |-> st.identities[n].email,
                            domain |-> st.identities[n].domain,
                            folders |-> st.identities[n].folders]]]

\* SaveConfig: the content of the identity store afterwards.  The Name field
\* is tagged json:"-" and is not written; the map keys are.  A write that
\* fails leaves the store as it was.
SaveConfig(config, old, writeOK) ==
  IF ~writeOK THEN old
  ELSE [kind |-> "json",
        identities |-> [n \in DOMAIN config |->
                          [user |-> config[n].user,
                           email |-> config[n].email,
                           domain |-> config[n].domain,
                           folders |-> config[n].folders]]]

\* Config.HasIdentity
HasIdentity(config, name) == name \in DOMAIN config

\* ------------------------------------------------------------------ state

VARIABLES
  store,        \* content of ~/.git-identities.json
  privKey,      \* name -> content of ~/.ssh/<name>_key
  pubKey,       \* name -> content of ~/.ssh/<name>_key.pub
  gitCfg,       \* name -> content of ~/.gitconfig-<name>
  homePub,      \* name -> content of ~/<name>_key.pub
  dirs,         \* the directories that exist
  globalFiles,  \* ~/.gitconfig, ~/.ssh/config, ~/.ssh/allowed_signers
  stateFile,    \* content of ~/.config/zzk/git-state.json
  archives,     \* the git-orphans-*.tar.gz files of the backup directory
  pc,           \* position of the running command, "idle" between commands
  clock,        \* time.Now(), one tick per command
  cfg,          \* Sync's config argument
  state,        \* Sync's in-memory run state
  pending,      \* orphans not yet handed to cleanupIdentity
  filesToBackup,
  todo,         \* configured identities the loop has not reached yet
  result,       \* SyncResult
  out,          \* exit status and message of the last command
  trace,        \* what the running Sync has done so far (observation only)
  faults,       \* failures of the environment injected so far
  hist,         \* summary of the last Sync call that ran to its return
  whereOut,     \* the last `zzk git where` query and its answer
  whereBefore,  \* the query before that one
  call,         \* a function of the package called on its own: name and arguments
  ret,          \* what that call returned and left behind
  claudeConfig, \* the Config of the Claude providers a command holds in memory
  claudeCall    \* the last call made on that Config, and the Config before it

fsVars == <<store, privKey, pubKey, gitCfg, homePub, dirs, globalFiles, stateFile, archives>>
runVars == <<cfg, state, pending, filesToBackup, todo, result, trace>>
vars == <<store, privKey, pubKey, gitCfg, homePub, dirs, globalFiles, stateFile, archives,
          pc, clock, cfg, state, pending, filesToBackup, todo, result, out, trace,
          faults, hist, whereOut, whereBefore, call, ret, claudeConfig, claudeCall>>
whereVars == <<whereOut, whereBefore>>
callVars == <<call, ret>>
claudeVars == <<claudeConfig, claudeCall>>

ConfigDir == Home \o <<"/", ".config", "/", "zzk">>
BackupDir == ConfigDir \o <<"/", "backups">>
SSHDir == Home \o <<"/", ".ssh">>

\* The paths Sync and cleanupIdentity build from a name with filepath.Join.
KeyPath(n) == Clean(SSHDir \o <<"/">> \o n \o <<"_key">>)
PubKeyPath(n) == KeyPath(n) \o <<".pub">>
GitConfigPath(n) == Clean(Home \o <<"/", ".gitconfig-">> \o n)
HomePubPath(n) == Clean(Home \o <<"/">> \o n \o <<"_key.pub">>)

\* The files are kept under the names of Names; these are the entries the
\* paths built from an identity name lead to.  The git config of "./a" is a
\* file of its own, in the directory ~/.gitconfig-.
KeySlots == [n \in IdNames |-> CHOOSE m \in Names : KeyPath(m) = KeyPath(n)]
HomeSlots == [n \in IdNames |-> CHOOSE m \in Names : HomePubPath(m) = HomePubPath(n)]
GitSlots == [n \in IdNames |-> CHOOSE m \in IdNames : GitConfigPath(m) = GitConfigPath(n)]
KeySlot(n) == KeySlots[n]
HomeSlot(n) == HomeSlots[n]
GitSlot(n) == GitSlots[n]

\* os.ReadFile on one of the key and git config paths.
ReadFile(path) ==
  IF \E n \in Names : path = KeyPath(n)
    THEN privKey[CHOOSE n \in Names : path = KeyPath(n)]
  ELSE IF \E n \in Names : path = PubKeyPath(n)
    THEN pubKey[CHOOSE n \in Names : path = PubKeyPath(n)]
  ELSE IF \E n \in IdNames : path = GitConfigPath(n)
    THEN gitCfg[CHOOSE n \in IdNames : path = GitConfigPath(n)]
  ELSE NoFile

\* os.Stat(path) returns no error
StatOK(path) == ReadFile(path) # NoFile

\* filepath.Base: what follows the last separator.
RECURSIVE Base(_)
Base(path) ==
  IF "/" \notin Range(path) THEN path
  ELSE Base(Drop(path, CHOOSE i \in 1..Len(path) : path[i] = "/" /\ \A j \in 1..(i - 1) : path[j] # "/"))

\* State after LoadState found no file.
NewState == [version |-> "1.0", lastSync |-> 0, identities |-> <<>>]

EmptyResult == [orphansRemoved |-> {}, created |-> {}, verified |-> {}, failed |-> {}]

EmptyTrace ==
  [scanned |-> {}, orphans |-> {}, startPriv |-> [n \in Names |-> NoFile], startPub |-> [n \in Names |-> NoFile],
   gen |-> {}, keygenFailed |-> {}, gitcfgFailed |-> {}, agent |-> <<>>, probe |-> <<>>,
   backup |-> "none", cleaned |-> {}, processed |-> {}, globals |-> "none", made |-> <<>>,
   mkdirFailed |-> {}, rotate |-> "none",
   scannedKeys |-> {}, scannedConfigs |-> {}, orphanList |-> <<>>, probeDir |-> <<>>,
   backupErr |-> "", copy |-> <<>>, startHome |-> [n \in Names |-> NoFile]]

NoGlobals == [gitconfig |-> NoFile, sshconfig |-> NoFile, signers |-> NoFile]

\* hist before any Sync call returned.
NoRun == [at |-> 0, cfg |-> <<>>, err |-> TRUE, failed |-> {}, globals |-> NoGlobals]

\* The backup directory holds no archive, or MaxOldBackups archives of earlier
\* clean-ups (their entries are not tracked).
\* No function was called on its own yet.
NoCall == [fn |-> "none"]

\* No Config of the Claude providers was loaded.
NoConfig == [none |-> TRUE]

\* No `zzk git where` query was made yet.
NoQuery == [none |-> TRUE]

OldArchives == {[ts |-> 0 - i, entries |-> {}] : i \in 1..MaxOldBackups}

\* The state before the first command, with the identity store one of stores.
InitFrom(stores) ==
  /\ store \in stores
  /\ privKey = [n \in Names |-> NoFile]
  /\ pubKey = [n \in Names |-> NoFile]
  /\ gitCfg = [n \in IdNames |-> NoFile]
  /\ homePub = [n \in Names |-> NoFile]
  /\ dirs = Ancestors(Home)
  /\ globalFiles = NoGlobals
  /\ stateFile = NoFile
  /\ archives \in {{}, OldArchives}
  /\ pc = "idle"
  /\ clock = 0
  /\ cfg = <<>>
  /\ state = NewState
  /\ pending = {}
  /\ filesToBackup = {}
  /\ todo = {}
  /\ result = EmptyResult
  /\ out = [exit |-> 0, msg |-> "", loadErr |-> "", example |-> FALSE]
  /\ trace = EmptyTrace
  /\ faults = 0
  /\ hist = NoRun
  /\ whereOut = NoQuery
  /\ whereBefore = NoQuery
  /\ call = NoCall
  /\ ret = NoCall
  /\ claudeConfig = NoConfig
  /\ claudeCall = NoCall

Init == InitFrom(StoreChoices)

\* ------------------------------------------------------ scans and orphans

\* FindZZKManagedKeys: the identity names read from the markers of the *.pub
\* files of ~/.ssh (the keys of the returned map).
FindZZKManagedKeys ==
  {IsZZKManagedKey(pubKey[n])[2] : n \in {m \in Names : IsZZKManagedKey(pubKey[m])[1]}}

\* FindZZKManagedGitConfigs: the names taken from the ~/.gitconfig-<name> files.
FindZZKManagedGitConfigs == {n \in Names : gitCfg[n] # NoFile}

\* Faulty detectOrphans: the tests of HasIdentity are not negated.
detectOrphans_NotNegated(config) ==
  {n \in FindZZKManagedKeys \cup FindZZKManagedGitConfigs : HasIdentity(config, n)}

\* detectOrphans: the names of the first scan that the config lacks, then those
\* of the second scan that the config lacks and the list does not hold yet.
detectOrphans(config) ==
  LET fromKeys == {n \in FindZZKManagedKeys : ~HasIdentity(config, n)}
      fromConfigs == {n \in FindZZKManagedGitConfigs : ~HasIdentity(config, n)}
  IN  fromKeys \cup (fromConfigs \ fromKeys)

\* The orders in which `range` can visit the keys of a map with key set S.
Orders(S) == {q \in [1..Cardinality(S) -> S] : Range(q) = S}

\* Faulty loop of detectOrphans: slices.Contains is not consulted.
RECURSIVE appendOrphans_NoContains(_, _, _, _)
appendOrphans_NoContains(orphans, names, config, checkFound) ==
  IF names = <<>> THEN orphans
  ELSE appendOrphans_NoContains(
         IF ~HasIdentity(config, Head(names)) THEN Append(orphans, Head(names)) ELSE orphans,
         Tail(names), config, checkFound)

\* One loop of detectOrphans over the names of a scan, in the order the map
\* range yields them: a name the config lacks is appended; in the second loop
\* (checkFound) only when slices.Contains does not find it in the list.
RECURSIVE appendOrphans(_, _, _, _)
appendOrphans(orphans, names, config, checkFound) ==
  IF names = <<>> THEN orphans
  ELSE appendOrphans(
         IF /\ ~HasIdentity(config, Head(names))
            /\ (checkFound => Head(names) \notin Range(orphans))
         THEN Append(orphans, Head(names)) ELSE orphans,
         Tail(names), config, checkFound)

\* detectOrphans as the slice it returns; keys and configs are the names of
\* the two scans in the order the two loops visit them.
detectOrphansInOrder(config, keys, configs) ==
  appendOrphans(appendOrphans(<<>>, keys, config, FALSE), configs, config, TRUE)

\* The three files Sync expects an orphan to have.
OrphanFiles(o) == {KeyPath(o), PubKeyPath(o), GitConfigPath(o)}

\* Faulty collection: the three paths are listed without the os.Stat tests.
CollectFiles_NoStat(orphanSet) == UNION {OrphanFiles(o) : o \in orphanSet}

\* The files Sync collects for the backup: those of the three that exist.
CollectFiles(orphanSet) ==
  {p \in UNION {OrphanFiles(o) : o \in orphanSet} : StatOK(p)}

\* ------------------------------------------------------------ the command

\* Faulty gitSyncCmd: every load error, not only a missing file, leads to
\* CreateExampleConfig, which overwrites the store.
OnLoadError_Overwrite(st, createOK) ==
  IF createOK
  THEN [store |-> StoreExample, exit |-> 0, msg |-> "Created example config",
        example |-> TRUE]
  ELSE [store |-> st, exit |-> 1, msg |-> "Failed to create example config",
        example |-> FALSE]

\* gitSyncCmd when LoadConfig fails: what becomes of the identity store, and
\* the exit status.  createOK is the outcome of CreateExampleConfig.
OnLoadError(st, createOK) ==
  IF st.kind # "absent"
  THEN [store |-> st, exit |-> 1, msg |-> "Error in config file", example |-> FALSE]
  ELSE IF createOK
       THEN [store |-> StoreExample, exit |-> 0, msg |-> "Created example config",
             example |-> TRUE]
       ELSE [store |-> st, exit |-> 1, msg |-> "Failed to create example config",
             example |-> FALSE]

\* Faulty gitSyncCmd: the error of Sync is printed but the exit status stays 0.
SyncExit_AlwaysZero(err) == 0

\* gitSyncCmd after Sync returned: the exit status.
SyncExit(err) == IF err THEN 1 ELSE 0

\* `zzk git sync` with an identity store that does not load.
CmdLoadFails ==
  /\ pc = "idle"
  /\ clock < MaxRuns
  /\ store # StoreExample
  /\ LoadConfig(store).err # ""
  /\ \E createOK \in BOOLEAN :
       LET r == OnLoadError(store, createOK) IN
         /\ ~createOK => store.kind = "absent" /\ faults < MaxFaults
         /\ faults' = IF createOK THEN faults ELSE faults + 1
         /\ store' = r.store
         /\ out' = [exit |-> r.exit, msg |-> r.msg, loadErr |-> LoadConfig(store).err,
                    example |-> r.example]
  /\ clock' = clock + 1
  /\ UNCHANGED <<privKey, pubKey, gitCfg, homePub, dirs, globalFiles, stateFile, archives>>
  /\ UNCHANGED <<pc, hist>>
  /\ UNCHANGED whereVars
  /\ UNCHANGED claudeVars
  /\ UNCHANGED callVars
  /\ UNCHANGED runVars

\* LoadState
LoadState == IF stateFile = NoFile THEN NewState ELSE stateFile

\* `zzk git sync`, LoadConfig succeeded; Sync fails in LoadState or in
\* detectOrphans (a read error) and the command exits with status 1.
CmdSyncEarlyError ==
  /\ pc = "idle"
  /\ clock < MaxRuns
  /\ store # StoreExample
  /\ LoadConfig(store).err = ""
  /\ faults < MaxFaults
  /\ faults' = faults + 1
  /\ \E where \in {"failed to load state", "failed to detect orphans"} :
       out' = [exit |-> SyncExit(TRUE), msg |-> where, loadErr |-> "", example |-> FALSE]
  /\ dirs' = dirs \cup Ancestors(ConfigDir)
  /\ clock' = clock + 1
  /\ UNCHANGED <<store, privKey, pubKey, gitCfg, homePub, globalFiles, stateFile, archives>>
  /\ UNCHANGED <<pc, hist>>
  /\ UNCHANGED whereVars
  /\ UNCHANGED claudeVars
  /\ UNCHANGED callVars
  /\ UNCHANGED runVars

\* `zzk git sync`, LoadConfig succeeded: Sync up to the end of orphan detection
\* and the collection of the files to back up.
CmdSyncBegin ==
  /\ pc = "idle"
  /\ clock < MaxRuns
  /\ store # StoreExample
  /\ LoadConfig(store).err = ""
  /\ LET config == LoadConfig(store).config
         orphanSet == detectOrphans(config)
     IN  /\ cfg' = config
         /\ state' = LoadState
         /\ pending' = orphanSet
         /\ filesToBackup' = CollectFiles(orphanSet)
         /\ todo' = DOMAIN config
         /\ result' = EmptyResult
         /\ \E keys \in Orders(FindZZKManagedKeys), configs \in Orders(FindZZKManagedGitConfigs) :
              trace' = [EmptyTrace EXCEPT !.scanned = FindZZKManagedKeys \cup FindZZKManagedGitConfigs,
                                        !.scannedKeys = FindZZKManagedKeys,
                                        !.scannedConfigs = FindZZKManagedGitConfigs,
                                        !.orphanList = detectOrphansInOrder(config, keys, configs),
                                        !.orphans = orphanSet,
                                        !.startPriv = privKey, !.startPub = pubKey,
                                        !.startHome = homePub]
         /\ pc' = IF orphanSet # {} THEN "backup"
                  ELSE IF DOMAIN config # {} THEN "process" ELSE "globals"
  /\ dirs' = dirs \cup Ancestors(ConfigDir)
  /\ clock' = clock + 1
  /\ out' = [exit |-> 0, msg |-> "", loadErr |-> "", example |-> FALSE]
  /\ UNCHANGED <<store, privKey, pubKey, gitCfg, homePub, globalFiles, stateFile, archives>>
  /\ UNCHANGED <<faults, hist>>
  /\ UNCHANGED whereVars
  /\ UNCHANGED claudeVars
  /\ UNCHANGED callVars

\* The user edits the identity store between two commands.
EditConfig ==
  /\ pc = "idle"
  /\ clock < MaxRuns
  /\ store' \in StoreChoices \ {store}
  /\ UNCHANGED <<privKey, pubKey, gitCfg, homePub, dirs, globalFiles, stateFile, archives>>
  /\ UNCHANGED <<pc, clock, out, faults, hist>>
  /\ UNCHANGED whereVars
  /\ UNCHANGED claudeVars
  /\ UNCHANGED callVars
  /\ UNCHANGED runVars

\* ------------------------------------------------------------- the backup

\* The archive BackupFiles writes: one entry per file, under its base name.
NewArchive(files) ==
  [ts |-> clock, entries |-> {[name |-> Base(f), data |-> ReadFile(f)] : f \in files}]

\* The archive BackupFiles leaves behind when addFileToTar fails on the first file.
BrokenArchive == [ts |-> clock, entries |-> {}]

\* Number of archives modified after a.
Rank(arch, a) == Cardinality({b \in arch : b.ts > a.ts})

\* Faulty RotateBackups: the archives are sorted oldest first, so that the
\* newest ones are removed.
RotateBackups_OldestFirst(arch, keep, deleted) ==
  IF Cardinality(arch) <= keep THEN arch
  ELSE {a \in arch :
          ~(Cardinality({b \in arch : b.ts < a.ts}) >= keep
            /\ Cardinality({b \in arch : b.ts < a.ts}) < keep + deleted)}

\* Faulty RotateBackups: the loop goes on after an os.Remove that fails, so
\* that all archives from position keep on but the failing one are removed.
RotateBackups_ContinueOnError(arch, keep, deleted) ==
  IF Cardinality(arch) <= keep THEN arch
  ELSE {a \in arch : ~(Rank(arch, a) >= keep /\ Rank(arch, a) # keep + deleted)}

\* RotateBackups(dir, keep): nothing when at most keep archives match; else the
\* archives are sorted newest first and those from position keep on are removed
\* in that order.  deleted is the number of removals done before one fails
\* (all of them when none fails).
RotateBackups(arch, keep, deleted) ==
  IF Cardinality(arch) <= keep THEN arch
  ELSE {a \in arch : ~(Rank(arch, a) >= keep /\ Rank(arch, a) < keep + deleted)}

\* Number of archives RotateBackups has to delete.
RotateCount(arch, keep) ==
  IF Cardinality(arch) <= keep THEN 0 ELSE Cardinality(arch) - keep

\* Faulty Sync: an error of BackupFiles or RotateBackups ends the run.
AfterBackup_Abort(backupErr) == IF backupErr THEN "done" ELSE "cleanup"

\* Sync, lines 72-86: where Sync goes on after the backup.  An error of
\* BackupFiles or of RotateBackups is printed as a warning, and the loop that
\* removes the orphans follows in every case.
AfterBackup(backupErr) == "cleanup"

\* Sync, lines 70-83: the backup of the orphans' files and the rotation.
\* BackupFiles opens every listed file, so a listed file that is not there
\* makes it fail in os.Open; its other failures are failures of the
\* environment (the archive cannot be created, or cannot be written).
Backup ==
  /\ pc = "backup"
  /\ IF filesToBackup = {}
     THEN /\ UNCHANGED <<archives, dirs, faults>>
          /\ trace' = [trace EXCEPT !.backup = "skipped"]
          /\ pc' = AfterBackup(FALSE)
     ELSE IF \E f \in filesToBackup : ~StatOK(f)
     THEN /\ archives' = archives \cup {BrokenArchive}
          /\ dirs' = dirs \cup Ancestors(BackupDir)
          /\ trace' = [trace EXCEPT !.backup = "failed", !.backupErr = "open"]
          /\ pc' = AfterBackup(TRUE)
          /\ UNCHANGED faults
     ELSE \/ \* BackupFiles succeeds, RotateBackups follows
             \E deleted \in 0..RotateCount(archives \cup {NewArchive(filesToBackup)}, KeepBackups) :
               /\ LET rotateOK ==
                        deleted = RotateCount(archives \cup {NewArchive(filesToBackup)}, KeepBackups)
                  IN  /\ ~rotateOK => faults < MaxFaults
                      /\ faults' = IF rotateOK THEN faults ELSE faults + 1
               /\ archives' = RotateBackups(archives \cup {NewArchive(filesToBackup)},
                                            KeepBackups, deleted)
               /\ dirs' = dirs \cup Ancestors(BackupDir)
               /\ trace' = [trace EXCEPT
                             !.backup = "ok",
                             !.rotate = IF deleted = RotateCount(archives \cup {NewArchive(filesToBackup)},
                                                                KeepBackups)
                                        THEN "ok" ELSE "failed"]
               /\ pc' = AfterBackup(deleted # RotateCount(archives \cup {NewArchive(filesToBackup)},
                                                         KeepBackups))
          \/ \* BackupFiles fails before or after it created the archive file
             \E created \in BOOLEAN :
               /\ faults < MaxFaults
               /\ faults' = faults + 1
               /\ archives' = IF created THEN archives \cup {BrokenArchive} ELSE archives
               /\ dirs' = IF created THEN dirs \cup Ancestors(BackupDir) ELSE dirs
               /\ trace' = [trace EXCEPT !.backup = "failed",
                                         !.backupErr = IF created THEN "write" ELSE "create"]
               /\ pc' = AfterBackup(TRUE)
  /\ UNCHANGED <<store, privKey, pubKey, gitCfg, homePub, globalFiles, stateFile>>
  /\ UNCHANGED <<clock, cfg, state, pending, filesToBackup, todo, result, out, hist>>
  /\ UNCHANGED whereVars
  /\ UNCHANGED claudeVars
  /\ UNCHANGED callVars

\* ------------------------------------------------------- orphan clean-up

\* os.Remove(serviceFolder): only an existing, empty directory goes away.
\* userEmpty says whether the directory holds no file of the user's.
RemoveServiceFolder(d, name, userEmpty) ==
  IF /\ ServiceFolder(name) \in d
     /\ userEmpty
     /\ ~\E c \in d : c # ServiceFolder(name) /\ IsPrefix(ServiceFolder(name) \o <<"/">>, c)
  THEN d \ {ServiceFolder(name)}
  ELSE d

\* Faulty cleanupIdentity: the public key in ~/.ssh is not removed.
cleanupIdentity_KeepsPub(o, userEmpty) ==
  [priv |-> [privKey EXCEPT ![KeySlot(o)] = NoFile],
   pub |-> pubKey,
   homePub |-> [homePub EXCEPT ![HomeSlot(o)] = NoFile],
   gitCfg |-> [gitCfg EXCEPT ![GitSlot(o)] = NoFile],
   dirs |-> RemoveServiceFolder(dirs, o, userEmpty)]

\* cleanupIdentity: the key pair, the copy of the public key in the home
\* directory, the git config and the service folder of the name are removed.
cleanupIdentity(o, userEmpty) ==
  [priv |-> [privKey EXCEPT ![KeySlot(o)] = NoFile],
   pub |-> [pubKey EXCEPT ![KeySlot(o)] = NoFile],
   homePub |-> [homePub EXCEPT ![HomeSlot(o)] = NoFile],
   gitCfg |-> [gitCfg EXCEPT ![GitSlot(o)] = NoFile],
   dirs |-> RemoveServiceFolder(dirs, o, userEmpty)]

\* Sync, lines 86-95, one orphan: cleanupIdentity, then the bookkeeping.
Cleanup(o) ==
  /\ pc = "cleanup"
  /\ o \in pending
  /\ \E userEmpty \in BOOLEAN :
       /\ ServiceFolder(o) \notin dirs => userEmpty
       /\ privKey' = cleanupIdentity(o, userEmpty).priv
       /\ pubKey' = cleanupIdentity(o, userEmpty).pub
       /\ homePub' = cleanupIdentity(o, userEmpty).homePub
       /\ gitCfg' = cleanupIdentity(o, userEmpty).gitCfg
       /\ dirs' = cleanupIdentity(o, userEmpty).dirs
  /\ result' = [result EXCEPT !.orphansRemoved = @ \cup {o}]
  /\ state' = [state EXCEPT !.identities = [n \in DOMAIN @ \ {o} |-> @[n]]]
  /\ pending' = pending \ {o}
  /\ trace' = [trace EXCEPT !.cleaned = @ \cup {o}]
  /\ pc' = IF pending \ {o} # {} THEN "cleanup"
           ELSE IF DOMAIN cfg # {} THEN "process" ELSE "globals"
  /\ UNCHANGED <<store, globalFiles, stateFile, archives>>
  /\ UNCHANGED <<clock, cfg, filesToBackup, todo, out, faults, hist>>
  /\ UNCHANGED whereVars
  /\ UNCHANGED claudeVars
  /\ UNCHANGED callVars

\* --------------------------------------------------- per-identity steps

\* Faulty SSHKeyExists: the test of the public key is inverted.
SSHKeyExists_Inverted(n) == privKey[KeySlot(n)] # NoFile /\ pubKey[KeySlot(n)] = NoFile

\* SSHKeyExists on the contents of the two key files: both are there.
KeyFilesExist(priv, pub) == priv # NoFile /\ pub # NoFile

\* SSHKeyExists: both key files are there.
SSHKeyExists(n) == KeyFilesExist(privKey[KeySlot(n)], pubKey[KeySlot(n)])

\* The key pair ssh-keygen writes for an identity at the current time: fresh
\* key material, and the comment that carries the marker.
NewPrivKey(identity) == [key |-> <<clock, identity.name>>]
NewPubKey(identity) ==
  [key |-> <<clock, identity.name>>, comment |-> SSHKeyComment(identity.email, identity.name)]

\* Faulty GenerateSSHKey: the key files are gone when it returns.
GenerateSSHKey_LeavesNoKey(identity, ok) == [priv |-> NoFile, pub |-> NoFile]

\* GenerateSSHKey: both files are removed, then ssh-keygen writes both or fails.
GenerateSSHKey(identity, ok) ==
  [priv |-> IF ok THEN NewPrivKey(identity) ELSE NoFile,
   pub |-> IF ok THEN NewPubKey(identity) ELSE NoFile]

\* CopyPublicKeyToHome: the new content of ~/<name>_key.pub; an identical copy
\* is left alone, and a failed write changes nothing.
CopyPublicKeyToHome(old, data, writeOK) ==
  IF data = NoFile THEN old
  ELSE IF old = data THEN old
  ELSE IF writeOK THEN data ELSE old

\* Faulty CopyPublicKeyToHome: the contents are not compared, the file is
\* written in every call.
CopyPublicKeyToHomeCall_NoShortCircuit(old, data, writeOK) ==
  IF data = NoFile
  THEN [copied |-> FALSE, err |-> "failed to read public key", wrote |-> FALSE, file |-> old]
  ELSE IF writeOK
       THEN [copied |-> TRUE, err |-> "", wrote |-> TRUE, file |-> data]
       ELSE [copied |-> FALSE, err |-> "failed to copy public key", wrote |-> TRUE, file |-> old]

\* CopyPublicKeyToHome: what it returns (copied, and err, "" for nil), whether
\* it called os.WriteFile, and the content of ~/<name>_key.pub afterwards.
CopyPublicKeyToHomeCall(old, data, writeOK) ==
  IF data = NoFile
  THEN [copied |-> FALSE, err |-> "failed to read public key", wrote |-> FALSE, file |-> old]
  ELSE IF old = data
       THEN [copied |-> FALSE, err |-> "", wrote |-> FALSE, file |-> old]
       ELSE IF writeOK
            THEN [copied |-> TRUE, err |-> "", wrote |-> TRUE,
                  file |-> CopyPublicKeyToHome(old, data, writeOK)]
            ELSE [copied |-> FALSE, err |-> "failed to copy public key", wrote |-> TRUE,
                  file |-> CopyPublicKeyToHome(old, data, writeOK)]

\* Sync, lines 132-140: CopyPublicKeyToHome is called only when the key was
\* created in this iteration; the copy is reported when it returns copied and
\* no error.
PublishKey(keyWasCreated, old, data, writeOK) ==
  IF keyWasCreated
  THEN [called |-> TRUE,
        wrote |-> CopyPublicKeyToHomeCall(old, data, writeOK).wrote,
        reported |-> CopyPublicKeyToHomeCall(old, data, writeOK).err = ""
                     /\ CopyPublicKeyToHomeCall(old, data, writeOK).copied,
        file |-> CopyPublicKeyToHomeCall(old, data, writeOK).file]
  ELSE [called |-> FALSE, wrote |-> FALSE, reported |-> FALSE, file |-> old]

\* CreateIdentityGitConfig: the content of ~/.gitconfig-<name>.
IdentityGitConfig(identity) ==
  [user |-> identity.user, email |-> identity.email, signingkey |-> PubKeyPath(identity.name)]

\* Faulty choice of the probe directory: the last existing folder wins (the
\* loop lacks its break).
RECURSIVE TestFromDir_NoBreak(_, _)
TestFromDir_NoBreak(folders, d) ==
  IF folders = <<>> THEN <<>>
  ELSE IF TestFromDir_NoBreak(Tail(folders), d) # <<>>
       THEN TestFromDir_NoBreak(Tail(folders), d)
       ELSE IF Clean(ExpandPath(Head(folders))) \in d THEN ExpandPath(Head(folders))
            ELSE <<>>

\* The first folder of the list that exists, expanded; <<>> when none does.
RECURSIVE TestFromDir(_, _)
TestFromDir(folders, d) ==
  IF folders = <<>> THEN <<>>
  ELSE IF Clean(ExpandPath(Head(folders))) \in d THEN ExpandPath(Head(folders))
  ELSE TestFromDir(Tail(folders), d)

\* The directories after the os.MkdirAll loop; mk[i] is whether the call for
\* folder i succeeded.
MkdirFolders(d, folders, mk) ==
  d \cup UNION {Ancestors(Clean(ExpandPath(folders[i]))) : i \in {j \in 1..Len(folders) : mk[j]}}

\* Faulty loop body: no `continue` after a failed CreateIdentityGitConfig.
ReachesAgentAndTest_NoContinue(keyFail, gitcfgFail) == ~keyFail

\* The two `continue` statements of the loop body: the agent registration and
\* the connectivity test are reached only when neither GenerateSSHKey nor
\* CreateIdentityGitConfig failed.
ReachesAgentAndTest(keyFail, gitcfgFail) == ~keyFail /\ ~gitcfgFail

\* Sync, lines 101-180: one iteration of the loop over config.Identities.  Go
\* ranges over the map in no fixed order, so any identity left may come next.
Process(n) ==
  /\ pc = "process"
  /\ n \in todo
  /\ \E mk \in [1..Len(cfg[n].folders) -> BOOLEAN] :
     \E keygenOK \in BOOLEAN, copyOK \in BOOLEAN, gitcfgOK \in BOOLEAN,
        agentOK \in BOOLEAN, probeOK \in BOOLEAN :
       LET identity == cfg[n]
           dirs1 == MkdirFolders(dirs, identity.folders, mk)
           existed == SSHKeyExists(n)
           gen == GenerateSSHKey(identity, keygenOK)
           keyFail == ~existed /\ ~keygenOK
           keyWasCreated == ~existed /\ keygenOK
           gitcfgFail == ~keyFail /\ ~gitcfgOK
           toTheEnd == ReachesAgentAndTest(keyFail, gitcfgFail)
           testFromDir == TestFromDir(identity.folders, dirs1)
           failures ==
             Cardinality({i \in DOMAIN mk : ~mk[i]})
             + (IF keygenOK THEN 0 ELSE 1) + (IF copyOK THEN 0 ELSE 1)
             + (IF gitcfgOK THEN 0 ELSE 1) + (IF agentOK THEN 0 ELSE 1)
       IN
         \* an outcome of a call that is not made is not a choice
         /\ existed => keygenOK
         /\ ~keyWasCreated => copyOK
         /\ keyFail => gitcfgOK
         /\ ~toTheEnd => agentOK /\ probeOK
         /\ testFromDir = <<>> => probeOK
         /\ faults + failures <= MaxFaults
         /\ faults' = faults + failures
         /\ dirs' = IF existed THEN dirs1 ELSE dirs1 \cup Ancestors(SSHDir)
         /\ privKey' = IF existed THEN privKey ELSE [privKey EXCEPT ![KeySlot(n)] = gen.priv]
         /\ pubKey' = IF existed THEN pubKey ELSE [pubKey EXCEPT ![KeySlot(n)] = gen.pub]
         /\ homePub' = [homePub EXCEPT ![HomeSlot(n)] = PublishKey(keyWasCreated, @, gen.pub, copyOK).file]
         /\ gitCfg' = IF ~keyFail /\ ~gitcfgFail
                      THEN [gitCfg EXCEPT ![GitSlot(n)] = IdentityGitConfig(identity)]
                      ELSE gitCfg
         /\ result' =
              [result EXCEPT
                 !.created = IF keyWasCreated THEN @ \cup {n} ELSE @,
                 !.failed = IF keyFail \/ gitcfgFail THEN @ \cup {n} ELSE @,
                 !.verified = IF toTheEnd /\ testFromDir # <<>> /\ probeOK
                              THEN @ \cup {n} ELSE @]
         /\ trace' =
              [trace EXCEPT
                 !.gen = IF existed THEN @ ELSE @ \cup {n},
                 !.keygenFailed = IF keyFail THEN @ \cup {n} ELSE @,
                 !.gitcfgFailed = IF gitcfgFail THEN @ \cup {n} ELSE @,
                 !.agent = IF toTheEnd
                           THEN (n :> IF agentOK THEN "ok" ELSE "failed") @@ @ ELSE @,
                 !.probe = IF toTheEnd
                           THEN (n :> IF testFromDir = <<>> THEN "skipped"
                                      ELSE IF probeOK THEN "ok" ELSE "failed") @@ @
                           ELSE @,
                 !.processed = @ \cup {n},
                 !.copy = (n :> [called |-> PublishKey(keyWasCreated, homePub[HomeSlot(n)], gen.pub, copyOK).called,
                                 reported |-> PublishKey(keyWasCreated, homePub[HomeSlot(n)], gen.pub, copyOK).reported])
                          @@ @,
                 !.probeDir = IF toTheEnd THEN (n :> testFromDir) @@ @ ELSE @,
                 !.mkdirFailed = IF \E i \in DOMAIN mk : ~mk[i] THEN @ \cup {n} ELSE @,
                 !.made = (n :> {Clean(ExpandPath(identity.folders[i])) :
                                   i \in {j \in DOMAIN mk : mk[j]}}) @@ @]
  /\ todo' = todo \ {n}
  /\ pc' = IF todo \ {n} # {} THEN "process" ELSE "globals"
  /\ UNCHANGED <<store, globalFiles, stateFile, archives>>
  /\ UNCHANGED <<clock, cfg, state, pending, filesToBackup, out, hist>>
  /\ UNCHANGED whereVars
  /\ UNCHANGED claudeVars
  /\ UNCHANGED callVars

\* ------------------------------------------------- global config writers

\* UpdateGlobalGitConfig: one conditional include per identity and folder.
RenderGitConfig(config) ==
  [includes |-> UNION {{<<config[n].folders[i], GitConfigPath(n)>> :
                          i \in 1..Len(config[n].folders)} : n \in DOMAIN config}]

\* UpdateSSHConfig: one host block per identity.
RenderSSHConfig(config) ==
  [hosts |-> {<<config[n].domain, KeyPath(n)>> : n \in DOMAIN config}]

\* UpdateAllowedSigners: one line per identity, its email and public key.
RenderAllowedSigners(config) ==
  [signers |-> {<<config[n].email, pubKey[KeySlot(n)]>> : n \in DOMAIN config}]

\* getSSHKeyFingerprint: "" without the key files, else the first 16 bytes of
\* the public key file, which are the same for every ed25519 key.
getSSHKeyFingerprint(n) ==
  IF privKey[KeySlot(n)] = NoFile \/ pubKey[KeySlot(n)] = NoFile THEN ""
  ELSE "ssh-ed25519 AAAA"

\* Faulty update of the run state: the identities recorded in Failed get no
\* entry.
UpdatedState_SkipsFailed ==
  [state EXCEPT
     !.lastSync = clock,
     !.identities =
        [n \in DOMAIN state.identities \cup (DOMAIN cfg \ result.failed) |->
           IF n \in DOMAIN cfg
           THEN [lastSync |-> clock, sshKeyFingerprint |-> getSSHKeyFingerprint(n)]
           ELSE state.identities[n]]]

\* Sync, lines 199-208: the run state after a successful run.
UpdatedState ==
  [state EXCEPT
     !.lastSync = clock,
     !.identities =
        [n \in DOMAIN state.identities \cup DOMAIN cfg |->
           IF n \in DOMAIN cfg
           THEN [lastSync |-> clock, sshKeyFingerprint |-> getSSHKeyFingerprint(n)]
           ELSE state.identities[n]]]

\* Faulty Sync: the run state is saved although a global writer failed.
SavedState_AfterFailure(failing, saveOK) ==
  IF saveOK THEN UpdatedState ELSE stateFile

\* Sync, lines 182-212: the content of the run-state file when Sync returns.
\* state.Save is reached only when none of the three writers returned an
\* error; a Save that fails leaves the file as it was.
SavedState(failing, saveOK) ==
  IF failing # 0 THEN stateFile
  ELSE IF saveOK THEN UpdatedState ELSE stateFile

\* Sync, lines 182-216: the three writers in order, the first failure returns
\* the error; then the run state is updated and saved.  failing is the number
\* of the writer that fails, 0 when none does.
Globals ==
  /\ pc = "globals"
  /\ \E failing \in 0..3, saveOK \in BOOLEAN :
       LET failures == (IF failing = 0 THEN 0 ELSE 1) + (IF saveOK THEN 0 ELSE 1)
           files == [gitconfig |-> IF failing = 1 THEN globalFiles.gitconfig
                                   ELSE RenderGitConfig(cfg),
                     sshconfig |-> IF failing \in {1, 2} THEN globalFiles.sshconfig
                                   ELSE RenderSSHConfig(cfg),
                     signers |-> IF failing \in {1, 2, 3} THEN globalFiles.signers
                                 ELSE RenderAllowedSigners(cfg)]
       IN  /\ failing # 0 => saveOK
           /\ faults + failures <= MaxFaults
           /\ faults' = faults + failures
           /\ globalFiles' = files
           /\ stateFile' = SavedState(failing, saveOK)
           /\ IF failing # 0
              THEN /\ out' = [exit |-> SyncExit(TRUE), msg |-> "Sync failed", loadErr |-> "",
                               example |-> FALSE]
                   /\ UNCHANGED state
                   /\ trace' = [trace EXCEPT !.globals = "failed"]
              ELSE /\ out' = [exit |-> SyncExit(FALSE), msg |-> "Sync complete!", loadErr |-> "",
                               example |-> FALSE]
                   /\ state' = UpdatedState
                   /\ trace' = [trace EXCEPT !.globals = "ok"]
  /\ pc' = "done"
  /\ UNCHANGED <<store, privKey, pubKey, gitCfg, homePub, dirs, archives>>
  /\ UNCHANGED <<clock, cfg, pending, filesToBackup, todo, result, hist>>
  /\ UNCHANGED whereVars
  /\ UNCHANGED claudeVars
  /\ UNCHANGED callVars

\* gitSyncCmd after Sync returned: the command ends.  The locals of the call
\* are gone; hist keeps what the next call is compared with.
Exit ==
  /\ pc = "done"
  /\ pc' = "idle"
  /\ hist' = [at |-> clock, cfg |-> cfg, err |-> out.exit # 0, failed |-> result.failed,
              globals |-> globalFiles]
  /\ cfg' = <<>>
  /\ state' = NewState
  /\ pending' = {}
  /\ filesToBackup' = {}
  /\ todo' = {}
  /\ result' = EmptyResult
  /\ trace' = EmptyTrace
  /\ UNCHANGED fsVars
  /\ UNCHANGED <<clock, out, faults>>
  /\ UNCHANGED whereVars
  /\ UNCHANGED claudeVars
  /\ UNCHANGED callVars

\* ------------------------------------------------------ the specification

Next ==
  \/ CmdLoadFails
  \/ CmdSyncEarlyError
  \/ CmdSyncBegin
  \/ EditConfig
  \/ Backup
  \/ \E o \in IdNames : Cleanup(o)
  \/ \E n \in IdNames : Process(n)
  \/ Globals
  \/ Exit

Spec == Init /\ [][Next]_vars

\* ------------------------------------- identity names with path elements

\* Identity stores whose names lead to the same key files: the name "./a",
\* the name "a", and both.  LoadConfig accepts any map key as a name.
PathStores ==
  {[kind |-> "json", identities |-> f] :
     f \in {(nDotA :> R1), (nA :> R1), (nA :> R1) @@ (nDotA :> R2)}}

\* The user replaces one of these stores by another between two commands.
EditConfigPaths ==
  /\ pc = "idle"
  /\ clock < MaxRuns
  /\ store' \in PathStores \ {store}
  /\ UNCHANGED <<privKey, pubKey, gitCfg, homePub, dirs, globalFiles, stateFile, archives>>
  /\ UNCHANGED <<pc, clock, out, faults, hist>>
  /\ UNCHANGED whereVars
  /\ UNCHANGED claudeVars
  /\ UNCHANGED callVars
  /\ UNCHANGED runVars

InitPaths == InitFrom(PathStores) /\ archives = {}

NextPaths ==
  \/ CmdSyncBegin
  \/ EditConfigPaths
  \/ Backup
  \/ \E o \in IdNames : Cleanup(o)
  \/ \E n \in IdNames : Process(n)
  \/ Globals
  \/ Exit

SpecPaths == InitPaths /\ [][NextPaths]_vars

\* ------------------------------------------------------- `zzk git where`

\* The working directories the query is made from.
WhereDirs ==
  { Home,
    Home \o <<"/", "w">>,
    Home \o <<"/", "w", "/", "x">>,
    Home \o <<"/", "w", "/", "x", "/", "y">>,
    Home \o <<"/", "w", "z">>,
    Home \o <<"/", "A">>,
    Home \o <<"/", "A", "/">> }

\* filepath.Abs on a path that is absolute already: filepath.Clean.
Abs(path) == Clean(path)

\* The orders in which `range` can visit the keys of a Go map: every one.
MapOrders(m) == {s \in [1..Cardinality(DOMAIN m) -> DOMAIN m] : Range(s) = DOMAIN m}

\* MatchingFolder: the first folder of the identity whose cleaned absolute
\* path is a strings.HasPrefix prefix of the cleaned directory, <<>> if none.
RECURSIVE MatchingFolder(_, _)
MatchingFolder(folders, dir) ==
  IF folders = <<>> THEN <<>>
  ELSE IF IsPrefix(Clean(Abs(ExpandPath(Head(folders)))), Clean(Abs(dir)))
       THEN Head(folders)
       ELSE MatchingFolder(Tail(folders), dir)

\* DetectIdentity: the identities are visited in the order the map range
\* produces them; the first one with a matching folder is returned.
RECURSIVE DetectIdentity(_, _, _)
DetectIdentity(config, dir, order) ==
  IF order = <<>> THEN [name |-> <<>>, err |-> TRUE]
  ELSE IF MatchingFolder(config[Head(order)].folders, dir) # <<>>
       THEN [name |-> Head(order), err |-> FALSE]
       ELSE DetectIdentity(config, dir, Tail(order))

\* `zzk git where` from directory cwd with an identity store that loads.
Where(cwd) ==
  /\ pc = "idle"
  /\ LoadConfig(store).err = ""
  /\ \E order \in MapOrders(LoadConfig(store).config) :
       LET found == DetectIdentity(LoadConfig(store).config, cwd, order) IN
         /\ whereOut' = [store |-> store, dir |-> cwd, name |-> found.name, err |-> found.err]
         /\ out' = [exit |-> IF found.err THEN 1 ELSE 0, msg |-> "", loadErr |-> "",
                    example |-> FALSE]
  /\ whereBefore' = whereOut
  /\ UNCHANGED callVars
  /\ UNCHANGED claudeVars
  /\ UNCHANGED fsVars
  /\ UNCHANGED <<pc, clock, faults, hist>>
  /\ UNCHANGED runVars

\* `zzk git where` with an identity store that does not load.
WhereLoadFails ==
  /\ pc = "idle"
  /\ LoadConfig(store).err # ""
  /\ out' = [exit |-> 1, msg |-> "Error loading config", loadErr |-> LoadConfig(store).err,
             example |-> FALSE]
  /\ UNCHANGED fsVars
  /\ UNCHANGED <<pc, clock, faults, hist>>
  /\ UNCHANGED runVars
  /\ UNCHANGED whereVars
  /\ UNCHANGED claudeVars
  /\ UNCHANGED callVars

NextWhere ==
  \/ \E cwd \in WhereDirs : Where(cwd)
  \/ WhereLoadFails

SpecWhere == Init /\ [][NextWhere]_vars

\* ------------------------------------------- functions called on their own

\* Length of the output of the probe, in words.
MaxOutput == 3

\* strings.Contains
Contains(str, sub) == \E i \in 0..(Len(str) - Len(sub)) : SubSeq(str, i + 1, i + Len(sub)) = sub

\* TestSSHConnection: successPatterns
SuccessPatterns ==
  << <<"successfully authenticated">>,
     <<"You've ", "successfully authenticated">>,
     <<"Hi ">>,
     <<"Welcome to ">> >>

\* The words `ssh -T git@<domain>` prints in the model: the phrases the
\* function looks for, near misses of them, and other text.
OutputWords ==
  {"successfully authenticated", "You've ", "Hi ", "Welcome to ", "Permission denied",
   "permission denied", "Hi", "rejected"}

ProbeOutputs == UNION {[1..k -> OutputWords] : k \in 0..MaxOutput}

\* How cmd.CombinedOutput ends: the exit status of ssh, or NotStarted when the
\* command could not be run (and then there is no output).
NotStarted == 0 - 1
ProbeExits == {0, 1, 255, NotStarted}

\* Faulty TestSSHConnection: "Permission denied" is looked for first.
TestSSHConnection_DeniedFirst(chdirOK, outputStr, exit) ==
  IF ~chdirOK THEN "failed to change to directory"
  ELSE IF Contains(outputStr, <<"Permission denied">>) THEN "permission denied"
  ELSE IF \E i \in 1..Len(SuccessPatterns) : Contains(outputStr, SuccessPatterns[i]) THEN ""
  ELSE IF exit # 0 THEN "SSH test failed"
  ELSE ""

\* TestSSHConnection after os.Getwd: the error it returns, "" for nil.  err of
\* cmd.CombinedOutput is non-nil when ssh exits with a status other than 0 or
\* does not start.
TestSSHConnection(chdirOK, outputStr, exit) ==
  IF ~chdirOK THEN "failed to change to directory"
  ELSE IF \E i \in 1..Len(SuccessPatterns) : Contains(outputStr, SuccessPatterns[i]) THEN ""
  ELSE IF Contains(outputStr, <<"Permission denied">>) THEN "permission denied"
  ELSE IF exit # 0 THEN "SSH test failed"
  ELSE ""

\* A call of TestSSHConnection.
CallTestSSHConnection ==
  /\ call = NoCall
  /\ \E chdirOK \in BOOLEAN, outputStr \in ProbeOutputs, exit \in ProbeExits :
       /\ exit = NotStarted => outputStr = <<>>
       /\ ~chdirOK => outputStr = <<>> /\ exit = 0
       /\ call' = [fn |-> "TestSSHConnection", chdirOK |-> chdirOK, output |-> outputStr,
                   exit |-> exit]
       /\ ret' = [fn |-> "TestSSHConnection", err |-> TestSSHConnection(chdirOK, outputStr, exit)]
  /\ UNCHANGED fsVars
  /\ UNCHANGED <<pc, clock, out, faults, hist>>
  /\ UNCHANGED runVars
  /\ UNCHANGED whereVars
  /\ UNCHANGED claudeVars

\* Number of archives of the tool in the directory RotateBackups is called
\* on, and the largest keep it is called with.
MaxDirArchives == 4
MaxKeep == 2

\* The files the directory can hold: archives of the tool, modified in the
\* order of their stamps, a file whose name lacks the suffix of the pattern
\* and is older than all of them, and one that lacks the prefix and is newer.
DirPool ==
  {[name |-> [prefix |-> "git-orphans-", stem |-> i, suffix |-> ".tar.gz"], ts |-> i] :
     i \in 1..MaxDirArchives}
  \cup {[name |-> [prefix |-> "git-orphans-", stem |-> 1, suffix |-> ".tar"], ts |-> 0],
        [name |-> [prefix |-> "git-state", stem |-> 0, suffix |-> ".tar.gz"],
         ts |-> MaxDirArchives + 1]}

\* Faulty glob: every file of the directory matches.
Glob_Everything(files) == files

\* filepath.Glob(dir/git-orphans-*.tar.gz): the files of the directory whose
\* name starts with git-orphans- and ends with .tar.gz.
Glob(files) ==
  {f \in files : f.name.prefix = "git-orphans-" /\ f.name.suffix = ".tar.gz"}

\* Faulty RotateBackups: the error of os.Remove is not returned.
RotateBackupsErr_Nil(arch, keep, deleted) == FALSE

\* RotateBackups: whether it returns an error, which is the error of the
\* first os.Remove that fails.
RotateBackupsErr(arch, keep, deleted) == deleted < RotateCount(arch, keep)

\* RotateBackups(dir, keep) on a directory holding files: what it leaves there.
RotateBackupsIn(files, keep, deleted) ==
  (files \ Glob(files)) \cup RotateBackups(Glob(files), keep, deleted)

\* A call of RotateBackups; deleted is the number of calls of os.Remove that
\* succeed before one fails (all of them when none fails).
CallRotateBackups ==
  /\ call = NoCall
  /\ \E files \in SUBSET DirPool, keep \in 0..MaxKeep :
     \E deleted \in 0..RotateCount(Glob(files), keep) :
       /\ call' = [fn |-> "RotateBackups", files |-> files, keep |-> keep, deleted |-> deleted,
                   removeFails |-> deleted < RotateCount(Glob(files), keep)]
       /\ ret' = [fn |-> "RotateBackups", files |-> RotateBackupsIn(files, keep, deleted),
                  err |-> RotateBackupsErr(Glob(files), keep, deleted)]
  /\ UNCHANGED fsVars
  /\ UNCHANGED <<pc, clock, out, faults, hist>>
  /\ UNCHANGED runVars
  /\ UNCHANGED whereVars
  /\ UNCHANGED claudeVars

\* Length of the file list BackupFiles is called with.
MaxFiles == 3

\* The paths of the list: a key file, a file of the same base name in another
\* directory, and a git config file.
BackupPaths ==
  {KeyPath(nA), Home \o <<"/", "old", "/">> \o nA \o <<"_key">>, GitConfigPath(nA)}

\* What a path of the list can hold: nothing, or one of two contents.
BackupContents == {NoFile, [key |-> <<0, nA>>], [key |-> <<1, nA>>]}

\* Faulty addFileToTar: a file whose base name the archive already holds is
\* left out.
addFileToTar_OncePerName(entries, filename, fsys) ==
  IF fsys[filename] = NoFile THEN [entries |-> entries, err |-> TRUE]
  ELSE IF \E i \in 1..Len(entries) : entries[i].name = Base(filename)
       THEN [entries |-> entries, err |-> FALSE]
       ELSE [entries |-> Append(entries, [name |-> Base(filename), data |-> fsys[filename]]),
             err |-> FALSE]

\* addFileToTar: os.Open fails for a file that is not there; else one entry
\* is written, with filepath.Base(filename) as its name and the content of the
\* file.
addFileToTar(entries, filename, fsys) ==
  IF fsys[filename] = NoFile THEN [entries |-> entries, err |-> TRUE]
  ELSE [entries |-> Append(entries, [name |-> Base(filename), data |-> fsys[filename]]),
        err |-> FALSE]

\* The loop of BackupFiles over the list: it ends at the first error.
RECURSIVE addFilesToTar(_, _, _)
addFilesToTar(entries, files, fsys) ==
  IF files = <<>> THEN [entries |-> entries, err |-> FALSE]
  ELSE IF addFileToTar(entries, Head(files), fsys).err
       THEN addFileToTar(entries, Head(files), fsys)
       ELSE addFilesToTar(addFileToTar(entries, Head(files), fsys).entries, Tail(files), fsys)

\* BackupFiles(files, reason): the error it returns ("" for nil) and the
\* archive file it leaves in the backup directory.  An empty list is refused
\* before anything is created; createOK is whether os.MkdirAll and os.Create
\* succeed; an error of addFileToTar leaves the archive with the entries
\* written so far.
BackupFiles(files, fsys, createOK) ==
  IF files = <<>> THEN [err |-> "no files to backup", archive |-> NoFile]
  ELSE IF ~createOK THEN [err |-> "create", archive |-> NoFile]
  ELSE [err |-> IF addFilesToTar(<<>>, files, fsys).err THEN "open" ELSE "",
        archive |-> [entries |-> addFilesToTar(<<>>, files, fsys).entries]]

\* A call of BackupFiles.
CallBackupFiles ==
  /\ call = NoCall
  /\ \E k \in 0..MaxFiles :
     \E files \in [1..k -> BackupPaths], fsys \in [BackupPaths -> BackupContents],
        createOK \in BOOLEAN :
       /\ files = <<>> => createOK
       /\ call' = [fn |-> "BackupFiles", files |-> files, fsys |-> fsys, createOK |-> createOK]
       /\ ret' = [fn |-> "BackupFiles", err |-> BackupFiles(files, fsys, createOK).err,
                  archive |-> BackupFiles(files, fsys, createOK).archive]
  /\ UNCHANGED fsVars
  /\ UNCHANGED <<pc, clock, out, faults, hist>>
  /\ UNCHANGED runVars
  /\ UNCHANGED whereVars
  /\ UNCHANGED claudeVars

\* The identity whose key steps are run on their own, a key pair it has from
\* an earlier generation, and the public key ssh-keygen writes now.
KeyStepIdentity == LoadConfig([kind |-> "json", identities |-> (nA :> R1)]).config[nA]
OldPrivKey == [key |-> <<0 - 1, nA>>]
OldPubKey == [key |-> <<0 - 1, nA>>, comment |-> SSHKeyComment(R1.email, nA)]

\* Sync, lines 116-140, for one identity and on any contents of its two key
\* files and of ~/<name>_key.pub: the key is generated unless it exists, and
\* the public key is copied when it was generated.
CallSyncKeySteps ==
  /\ call = NoCall
  /\ \E priv \in {NoFile, OldPrivKey}, pub \in {NoFile, OldPubKey},
        home \in {NoFile, OldPubKey, NewPubKey(KeyStepIdentity)},
        keygenOK \in BOOLEAN, copyOK \in BOOLEAN :
       LET existed == KeyFilesExist(priv, pub)
           gen == GenerateSSHKey(KeyStepIdentity, keygenOK)
           keyWasCreated == ~existed /\ keygenOK
           published == PublishKey(keyWasCreated, home, gen.pub, copyOK)
       IN  /\ existed => keygenOK
           /\ ~published.wrote => copyOK
           /\ call' = [fn |-> "SyncKeySteps", priv |-> priv, pub |-> pub, home |-> home,
                       keygenOK |-> keygenOK, copyOK |-> copyOK]
           /\ ret' = [fn |-> "SyncKeySteps",
                      priv |-> IF existed THEN priv ELSE gen.priv,
                      pub |-> IF existed THEN pub ELSE gen.pub,
                      home |-> published.file,
                      created |-> keyWasCreated,
                      failed |-> ~existed /\ ~keygenOK,
                      copyCalled |-> published.called,
                      wrote |-> published.wrote,
                      reported |-> published.reported]
  /\ UNCHANGED fsVars
  /\ UNCHANGED <<pc, clock, out, faults, hist>>
  /\ UNCHANGED runVars
  /\ UNCHANGED whereVars
  /\ UNCHANGED claudeVars

\* Email addresses Validate rejects: no "@", nothing before it, no "." after
\* it, a one-letter last label, a digit in the last label, a second "@".
BadEmails ==
  { <<"c", ".", "c", "c">>,
    <<"@", "c", ".", "c", "c">>,
    <<"c", "@", "c", "c">>,
    <<"c", "@", "c", ".", "c">>,
    <<"c", "@", "c", ".", "c", "1">>,
    <<"c", "@", "c", "@", "c", ".", "c", "c">> }

\* The identity stores LoadConfig is called on: the ones that are no JSON
\* object with identities, and every map from some of two names to records,
\* valid or not.
LoadRecs == ValidRecs \cup BadRecs \cup {[R1 EXCEPT !.email = e] : e \in BadEmails}
LoadStores ==
  {StoreAbsent, StoreGarbage, StoreNoIdentities}
  \cup {[kind |-> "json", identities |-> f] :
          f \in UNION {[S -> LoadRecs] : S \in SUBSET {nA, nAB}}}

\* A call of LoadConfig.
CallLoadConfig ==
  /\ call = NoCall
  /\ \E st \in LoadStores :
       /\ call' = [fn |-> "LoadConfig", store |-> st]
       /\ ret' = [fn |-> "LoadConfig", err |-> LoadConfig(st).err, config |-> LoadConfig(st).config]
  /\ UNCHANGED fsVars
  /\ UNCHANGED <<pc, clock, out, faults, hist>>
  /\ UNCHANGED runVars
  /\ UNCHANGED whereVars
  /\ UNCHANGED claudeVars

\* SaveConfig on a config that LoadConfig returned, over any store, and
\* LoadConfig after it.
CallSaveConfig ==
  /\ call = NoCall
  /\ \E st \in ValidStores, old \in StoreChoices, writeOK \in BOOLEAN :
       /\ call' = [fn |-> "SaveConfig", config |-> LoadConfig(st).config, old |-> old,
                   writeOK |-> writeOK]
       /\ ret' = [fn |-> "SaveConfig",
                  store |-> SaveConfig(LoadConfig(st).config, old, writeOK),
                  err |-> LoadConfig(SaveConfig(LoadConfig(st).config, old, writeOK)).err,
                  config |-> LoadConfig(SaveConfig(LoadConfig(st).config, old, writeOK)).config]
  /\ UNCHANGED fsVars
  /\ UNCHANGED <<pc, clock, out, faults, hist>>
  /\ UNCHANGED runVars
  /\ UNCHANGED whereVars
  /\ UNCHANGED claudeVars

\* ---------------------------------------------------- restore of a backup

\* backupTargets: the number of backups of the previous directory kept.
TargetKeepBackups == 3

\* Number of backup directories in the home directory before the restore.
MaxHomeBackups == 3

\* No directory at the path.
NoDir == [absent |-> TRUE]

\* The stamp of the backup directory restoreBackup makes.
RestoreStamp == MaxHomeBackups + 1

\* The target directory before the restore: none, or a directory whose
\* modification time is earlier or later than those of the backups.
TargetChoices ==
  {NoDir} \cup {[content |-> "old", mtime |-> m] : m \in {1, MaxHomeBackups + 2}}

\* The backup directories earlier restores have left: named by their stamp,
\* each with the modification time the directory had when it was the target.
HomeBackupPool == {[stamp |-> i, mtime |-> i + 1, content |-> "older"] : i \in 1..MaxHomeBackups}

\* What curl leaves in the temporary file: nothing, a few bytes, a page that
\* is not XZ, XZ data that tar cannot list, and tar.xz archives with no
\* entry, a directory or a regular file at the path of the target.
Downloads ==
  {[size |-> 0, magicOK |-> FALSE, listOK |-> FALSE, entry |-> "none"],
   [size |-> 5, magicOK |-> FALSE, listOK |-> FALSE, entry |-> "none"],
   [size |-> 6, magicOK |-> FALSE, listOK |-> FALSE, entry |-> "none"],
   [size |-> 6, magicOK |-> TRUE, listOK |-> FALSE, entry |-> "none"]}
  \cup {[size |-> 6, magicOK |-> TRUE, listOK |-> TRUE, entry |-> e] : e \in {"none", "dir", "file"}}

\* The calls of restoreBackup that can fail for a reason outside the archive.
RestoreFailPoints ==
  {"none", "createTemp", "curl", "stat", "mkdirTemp", "testExtract", "rename", "extract"}

\* What a failed extraction has left at the path of the target: nothing, the
\* empty directory, or a directory with some of the files.
PartialKinds == {"none", "empty", "files"}

\* verifyTarXz: the error it returns, "" when the file passes.
verifyTarXz(archive) ==
  IF archive.size = 0 THEN "failed to read file"
  ELSE IF archive.size < 6 THEN "file too small"
  ELSE IF ~archive.magicOK THEN "wrong magic bytes"
  ELSE IF ~archive.listOK THEN "failed to verify tar archive"
  ELSE ""

\* Faulty restoreBackup: the removal of the test directory is not deferred.
DeferredAt_ArchiveOnly(line) == IF line > 31 THEN {"archive"} ELSE {}

\* The removals that are deferred when restoreBackup returns at a line: of
\* the temporary archive from line 31 on, of the test directory from line
\* 59 on.
DeferredAt(line) ==
  (IF line > 31 THEN {"archive"} ELSE {}) \cup (IF line > 59 THEN {"testDir"} ELSE {})

\* Faulty check: an archive without an entry at the path of the target passes.
ContainsTarget_Always(archive) == TRUE

\* restoreBackup, lines 68-71: os.Stat of the path of the target in the test
\* directory does not report that it is missing.
ContainsTarget(archive) == archive.entry # "none"

\* Number of backup directories modified after b.
NewerBackups(backups, b) == Cardinality({c \in backups : c.mtime > b.mtime})

\* cleanupOldBackups: nothing when at most keepCount directories match the
\* prefix; else they are sorted by modification time, newest first, and
\* those from position keepCount on are removed; a removal that fails is a
\* warning.
cleanupOldBackups(backups, keepCount, removeOK) ==
  IF Cardinality(backups) <= keepCount \/ ~removeOK THEN backups
  ELSE {b \in backups : NewerBackups(backups, b) < keepCount}

\* os.Rename of a directory: the destination must be missing or an empty
\* directory, and the source must exist.
RenameDirOK(srcExists, dst) == srcExists /\ (dst = NoDir \/ dst.content = "empty")

\* What restoreBackup returns at a line and leaves behind; created are the
\* temporary archive and test directory made up to there.
RestoreReturn(line, err, target, backups, renamed, created) ==
  [fn |-> "restoreBackup", line |-> line, err |-> err, target |-> target, backups |-> backups,
   renamed |-> renamed, tmp |-> created \ DeferredAt(line)]

\* restoreBackup: download to a temporary file, verify, extract to a test
\* directory, check that the path of the target came out; then move the
\* existing target to a backup directory, remove old backups, extract to the
\* home directory, and move the backup directory back when that fails.
restoreBackup(target, backups, archive, failAt, removeOK, partial) ==
  LET newBackup == [stamp |-> RestoreStamp, mtime |-> target.mtime, content |-> target.content]
      kept == IF target = NoDir THEN backups
              ELSE cleanupOldBackups(backups \cup {newBackup}, TargetKeepBackups, removeOK)
      written == IF partial = "none" THEN NoDir ELSE [content |-> partial, mtime |-> RestoreStamp]
      extracted == [content |-> IF archive.entry = "dir" THEN "new" ELSE "file",
                    mtime |-> RestoreStamp]
  IN
  IF failAt = "createTemp"
    THEN RestoreReturn(27, "failed to create temporary file", target, backups, FALSE, {})
  ELSE IF failAt = "curl"
    THEN RestoreReturn(37, "failed to download archive", target, backups, FALSE, {"archive"})
  ELSE IF verifyTarXz(archive) # ""
    THEN RestoreReturn(43, "not a valid tar.xz archive", target, backups, FALSE, {"archive"})
  ELSE IF failAt = "stat"
    THEN RestoreReturn(49, "failed to stat archive", target, backups, FALSE, {"archive"})
  ELSE IF failAt = "mkdirTemp"
    THEN RestoreReturn(57, "failed to create test directory", target, backups, FALSE,
                       {"archive"})
  ELSE IF failAt = "testExtract"
    THEN RestoreReturn(64, "archive extraction test failed", target, backups, FALSE,
                       {"archive", "testDir"})
  ELSE IF ~ContainsTarget(archive)
    THEN RestoreReturn(70, "archive does not contain the directory", target, backups, FALSE,
                       {"archive", "testDir"})
  ELSE IF target # NoDir /\ failAt = "rename"
    THEN RestoreReturn(84, "failed to backup existing", target, backups, FALSE,
                       {"archive", "testDir"})
  ELSE IF failAt = "extract"
    THEN IF target # NoDir /\ RenameDirOK(newBackup \in kept, written)
         THEN RestoreReturn(103, "failed to extract archive", target, kept \ {newBackup}, TRUE,
                            {"archive", "testDir"})
         ELSE RestoreReturn(103, "failed to extract archive", written, kept, target # NoDir,
                            {"archive", "testDir"})
  ELSE RestoreReturn(112, "", extracted, kept, target # NoDir, {"archive", "testDir"})

\* A call of restoreBackup: at most one call of the environment fails, at
\* failAt; removeOK says whether cleanupOldBackups can remove directories,
\* partial what a failing extraction to the home directory leaves.
CallRestoreBackup ==
  /\ call = NoCall
  /\ \E target \in TargetChoices, backups \in SUBSET HomeBackupPool, archive \in Downloads,
        failAt \in RestoreFailPoints, removeOK \in BOOLEAN, partial \in PartialKinds :
       /\ failAt = "rename" => target # NoDir
       /\ failAt # "extract" => partial = "none"
       /\ call' = [fn |-> "restoreBackup", target |-> target, backups |-> backups,
                   archive |-> archive, failAt |-> failAt, removeOK |-> removeOK,
                   partial |-> partial]
       /\ ret' = restoreBackup(target, backups, archive, failAt, removeOK, partial)
  /\ UNCHANGED fsVars
  /\ UNCHANGED <<pc, clock, out, faults, hist>>
  /\ UNCHANGED runVars
  /\ UNCHANGED whereVars
  /\ UNCHANGED claudeVars

InitLib == Init /\ store = StoreAbsent /\ archives = {}

NextLib ==
  \/ CallTestSSHConnection
  \/ CallRotateBackups
  \/ CallBackupFiles
  \/ CallSyncKeySteps
  \/ CallLoadConfig
  \/ CallSaveConfig
  \/ CallRestoreBackup

SpecLib == InitLib /\ [][NextLib]_vars

\* ------------------------------------------------- the Claude providers

\* The IDs of the registry of provider templates.
Templates == {"synthetic", "openrouter", "zai"}

\* The IDs the calls are made with: the templates and one unknown ID.
ProviderIDs == Templates \cup {"custom"}

\* The provider configurations a call can bring.
ProviderChoices == {[apiKey |-> "k1"], [apiKey |-> "k2"]}

IsValidTemplate(id) == id \in Templates

\* The provider entries ~/.claude-providers.json can hold: of the current
\* format, or with a field of the old format.
FileProviders ==
  {[apiKey |-> "k1", oldField |-> ""], [apiKey |-> "", oldField |-> "base_url"],
   [apiKey |-> "", oldField |-> "api_token"]}

\* The contents of ~/.claude-providers.json: no file, a file that cannot be
\* read, text that is not JSON, an object without providers, and objects
\* with providers and any active name.
ClaudeFiles ==
  {[kind |-> "absent"], [kind |-> "unreadable"], [kind |-> "garbage"]}
  \cup {[kind |-> "json", providers |-> <<>>, hasProviders |-> FALSE, active |-> a] :
          a \in {"", "zai"}}
  \cup {[kind |-> "json", providers |-> ps, hasProviders |-> TRUE, active |-> a] :
          ps \in UNION {[ids -> FileProviders] : ids \in SUBSET {"synthetic", "zai", "custom"}},
          a \in ProviderIDs \cup {""}}

\* detectOldFormat: an entry with a base_url or api_token field.
detectOldFormat(file) ==
  file.hasProviders /\ \E id \in DOMAIN file.providers : file.providers[id].oldField # ""

\* Faulty LoadConfig: the active name is taken from the file as it is.
ClaudeLoadConfig_KeepsActive(file) ==
  IF file.kind = "absent" THEN [err |-> FALSE, config |-> [providers |-> <<>>, active |-> ""]]
  ELSE IF file.kind \in {"unreadable", "garbage"} THEN [err |-> TRUE, config |-> NoConfig]
  ELSE IF detectOldFormat(file) THEN [err |-> TRUE, config |-> NoConfig]
  ELSE IF \E id \in DOMAIN file.providers : ~IsValidTemplate(id)
       THEN [err |-> TRUE, config |-> NoConfig]
  ELSE [err |-> FALSE,
        config |-> [providers |-> [id \in DOMAIN file.providers |->
                                     [apiKey |-> file.providers[id].apiKey]],
                    active |-> file.active]]

\* LoadConfig of the Claude providers: a missing file gives an empty Config;
\* a file that cannot be read or parsed, one of the old format and one with
\* an unknown provider ID give an error; an active name that is not among
\* the providers is cleared.
ClaudeLoadConfig(file) ==
  IF file.kind = "absent" THEN [err |-> FALSE, config |-> [providers |-> <<>>, active |-> ""]]
  ELSE IF file.kind \in {"unreadable", "garbage"} THEN [err |-> TRUE, config |-> NoConfig]
  ELSE IF detectOldFormat(file) THEN [err |-> TRUE, config |-> NoConfig]
  ELSE IF \E id \in DOMAIN file.providers : ~IsValidTemplate(id)
       THEN [err |-> TRUE, config |-> NoConfig]
  ELSE [err |-> FALSE,
        config |-> [providers |-> [id \in DOMAIN file.providers |->
                                     [apiKey |-> file.providers[id].apiKey]],
                    active |-> IF file.active \in DOMAIN file.providers
                               THEN file.active ELSE ""]]

HasProvider(c, templateID) == templateID \in DOMAIN c.providers

\* AddProvider: an unknown template ID and a provider that does not validate
\* are errors; otherwise the provider is stored under the ID.
AddProvider(c, templateID, provider, validateOK) ==
  IF ~IsValidTemplate(templateID) \/ ~validateOK THEN [err |-> TRUE, config |-> c]
  ELSE [err |-> FALSE,
        config |-> [c EXCEPT !.providers = (templateID :> provider) @@ c.providers]]

\* Faulty RemoveProvider: the active name stays.
RemoveProvider_KeepsActive(c, templateID) ==
  IF ~HasProvider(c, templateID) THEN [err |-> TRUE, config |-> c]
  ELSE [err |-> FALSE,
        config |-> [providers |-> [id \in DOMAIN c.providers \ {templateID} |-> c.providers[id]],
                    active |-> c.active]]

\* RemoveProvider: an error for an ID that is not configured; otherwise the
\* entry is deleted, and the active name is cleared when it was this ID.
RemoveProvider(c, templateID) ==
  IF ~HasProvider(c, templateID) THEN [err |-> TRUE, config |-> c]
  ELSE [err |-> FALSE,
        config |-> [providers |-> [id \in DOMAIN c.providers \ {templateID} |-> c.providers[id]],
                    active |-> IF c.active = templateID THEN "" ELSE c.active]]

\* SetActive: an error for an ID that is not configured.
SetActive(c, templateID) ==
  IF ~HasProvider(c, templateID) THEN [err |-> TRUE, config |-> c]
  ELSE [err |-> FALSE, config |-> [c EXCEPT !.active = templateID]]

ClearActive(c) == [c EXCEPT !.active = ""]

\* The frame of the calls on the Config.
ClaudeFrame ==
  /\ UNCHANGED fsVars
  /\ UNCHANGED <<pc, clock, out, faults, hist>>
  /\ UNCHANGED runVars
  /\ UNCHANGED whereVars
  /\ UNCHANGED callVars

\* A command loads the Config.
DoLoadConfig ==
  /\ claudeCall = NoCall
  /\ \E file \in ClaudeFiles :
       /\ claudeConfig' = ClaudeLoadConfig(file).config
       /\ claudeCall' = [fn |-> "LoadConfig", file |-> file, err |-> ClaudeLoadConfig(file).err]
  /\ ClaudeFrame

DoAddProvider ==
  /\ claudeConfig # NoConfig
  /\ \E id \in ProviderIDs, provider \in ProviderChoices, validateOK \in BOOLEAN :
       /\ claudeConfig' = AddProvider(claudeConfig, id, provider, validateOK).config
       /\ claudeCall' = [fn |-> "AddProvider", id |-> id, before |-> claudeConfig,
                         err |-> AddProvider(claudeConfig, id, provider, validateOK).err]
  /\ ClaudeFrame

DoRemoveProvider ==
  /\ claudeConfig # NoConfig
  /\ \E id \in ProviderIDs :
       /\ claudeConfig' = RemoveProvider(claudeConfig, id).config
       /\ claudeCall' = [fn |-> "RemoveProvider", id |-> id, before |-> claudeConfig,
                         err |-> RemoveProvider(claudeConfig, id).err]
  /\ ClaudeFrame

DoSetActive ==
  /\ claudeConfig # NoConfig
  /\ \E id \in ProviderIDs :
       /\ claudeConfig' = SetActive(claudeConfig, id).config
       /\ claudeCall' = [fn |-> "SetActive", id |-> id, before |-> claudeConfig,
                         err |-> SetActive(claudeConfig, id).err]
  /\ ClaudeFrame

DoClearActive ==
  /\ claudeConfig # NoConfig
  /\ claudeConfig' = ClearActive(claudeConfig)
  /\ claudeCall' = [fn |-> "ClearActive", id |-> "", before |-> claudeConfig, err |-> FALSE]
  /\ ClaudeFrame

NextClaude ==
  \/ DoLoadConfig
  \/ DoAddProvider
  \/ DoRemoveProvider
  \/ DoSetActive
  \/ DoClearActive

SpecClaude == InitLib /\ [][NextClaude]_vars

\* ------------------------------------------------------------- the claims

\* Sync is between its orphan detection and its return.
InSync == pc \in {"backup", "cleanup", "process", "globals", "done"}

\* Sync has finished the orphan clean-up.
CleanupOver == pc \in {"process", "globals", "done"}

\* This call of Sync and the one before it were consecutive commands, were
\* given the same config, and both returned without error and with an empty
\* Failed map.
SecondOfTwoCleanRuns ==
  /\ pc = "done"
  /\ out.exit = 0
  /\ result.failed = {}
  /\ ~hist.err
  /\ hist.failed = {}
  /\ hist.at + 1 = clock
  /\ hist.cfg = cfg

\* C1: the second of two successive Sync runs with the same config creates no
\* identity, removes no orphan and leaves the three global config files as the
\* first run wrote them.
C1_Idempotent ==
  SecondOfTwoCleanRuns =>
    /\ result.created = {}
    /\ result.orphansRemoved = {}
    /\ globalFiles = hist.globals

\* The key pair of n was complete when Sync started.
HadKeyPair(n) == trace.startPriv[n] # NoFile /\ trace.startPub[n] # NoFile

C3_OrphansGone ==
  CleanupOver =>
    \A n \in trace.scanned \ DOMAIN cfg :
      /\ n \in trace.orphans
      /\ privKey[n] = NoFile
      /\ pubKey[n] = NoFile
      /\ gitCfg[n] = NoFile
      /\ n \notin DOMAIN state.identities
      /\ n \notin detectOrphans(cfg)

\* The archive BackupFiles wrote in this run is there and holds every file
\* of the list, with the content the file has now.
ArchiveHoldsFiles ==
  \E a \in archives :
    /\ a.ts = clock
    /\ \A f \in filesToBackup : [name |-> Base(f), data |-> ReadFile(f)] \in a.entries

\* A step deletes the first of the files of the backup list.
FirstListedFileDeleted ==
  /\ filesToBackup # {}
  /\ \A f \in filesToBackup : StatOK(f)
  /\ \E f \in filesToBackup : ~StatOK(f)'

\* C4: when the orphans have files and BackupFiles succeeds, the step that
\* deletes the first of those files starts in a state where the backup has been
\* made and the archive exists and contains every listed file.
C4_BackupBeforeDelete ==
  [][FirstListedFileDeleted =>
       /\ trace.backup # "none"
       /\ trace.backup = "ok" => ArchiveHoldsFiles]_vars

C4_Witness ==
  /\ trace.backup = "ok"
  /\ filesToBackup # {}
  /\ trace.cleaned # {}
  /\ \E f \in filesToBackup : ~StatOK(f)

\* The identity store parses and holds a record Validate rejects.
StoreHasInvalidRecord ==
  /\ store.kind = "json"
  /\ \E n \in DOMAIN store.identities : Validate(store.identities[n]) # ""

\* C5: the sync command on a store with an invalid record fails in the load
\* and changes nothing: not the store, no key or config file, no directory,
\* no archive, not the run state.
C5_InvalidStoreNoSideEffect ==
  [][(pc = "idle" /\ clock' = clock + 1 /\ StoreHasInvalidRecord) =>
       /\ out'.loadErr = "invalid identity"
       /\ out'.exit # 0
       /\ pc' = "idle"
       /\ UNCHANGED fsVars]_vars

C5_Witness ==
  /\ pc = "idle"
  /\ out.loadErr = "invalid identity"
  /\ StoreHasInvalidRecord

\* C6: an identity whose key generation or git config write failed is in
\* Failed, and neither the agent registration nor the connectivity test ran
\* for it; every configured identity was still processed, the others to the
\* end of their steps, and the global config writers ran.
C6_HardStopPerIdentity ==
  pc \in {"globals", "done"} =>
    /\ result.failed = trace.keygenFailed \cup trace.gitcfgFailed
    /\ \A n \in result.failed :
         /\ n \notin DOMAIN trace.agent
         /\ n \notin DOMAIN trace.probe
         /\ n \notin result.verified
    /\ trace.processed = DOMAIN cfg
    /\ \A n \in DOMAIN cfg \ result.failed :
         n \in DOMAIN trace.agent /\ n \in DOMAIN trace.probe
    /\ pc = "done" => trace.globals # "none"

C6_Witness ==
  /\ pc = "done"
  /\ trace.keygenFailed # {}
  /\ trace.gitcfgFailed # {}
  /\ trace.globals = "ok"

\* The last command failed in LoadConfig, or the running Sync call had a
\* global config writer fail.
LoadFailed == out.loadErr # ""
WriterFailed == pc = "done" /\ trace.globals = "failed"

Renamed(a, b) ==
  /\ pc = "done"
  /\ a \in DOMAIN hist.cfg
  /\ a \notin hist.failed
  /\ a \notin DOMAIN cfg
  /\ b \in DOMAIN cfg
  /\ b \notin DOMAIN hist.cfg
  /\ cfg[b] = [hist.cfg[a] EXCEPT !.name = b]
  /\ HadKeyPair(a)
  /\ ~HadKeyPair(b)

\* The old name is an orphan and its key pair and git config are gone.
OldNameRemoved(a) ==
  /\ a \in trace.orphans
  /\ a \in result.orphansRemoved
  /\ privKey[a] = NoFile
  /\ pubKey[a] = NoFile
  /\ gitCfg[a] = NoFile

\* The key pair of b was generated in this run; nothing of it is a's.
FreshKeyPair(a, b) ==
  /\ privKey[b] = NewPrivKey(cfg[b])
  /\ pubKey[b] = NewPubKey(cfg[b])
  /\ privKey[b] # trace.startPriv[a]
  /\ pubKey[b] # trace.startPub[a]

\* C8 as stated: after a rename of a to b the next Sync removes a as an orphan,
\* generates a new key pair for b and has b in Created.
C8_RenameIsRemoveAndCreate ==
  \A a \in Names, b \in Names :
    Renamed(a, b) =>
      /\ OldNameRemoved(a)
      /\ b \in trace.gen
      /\ b \in result.created
      /\ FreshKeyPair(a, b)

\* C8 as amended: after a rename of a to b the next Sync removes a as an
\* orphan and runs key generation for b; unless that generation fails, b is in
\* Created with a new key pair; when it fails, b is in Failed, not in Created,
\* and has no key file.  In neither case is key material of a carried over.
C8_RenameIsRemoveAndGenerate ==
  \A a \in Names, b \in Names :
    Renamed(a, b) =>
      /\ OldNameRemoved(a)
      /\ b \in trace.gen
      /\ b \notin trace.keygenFailed => b \in result.created /\ FreshKeyPair(a, b)
      /\ b \in trace.keygenFailed =>
           /\ b \in result.failed
           /\ b \notin result.created
           /\ privKey[b] = NoFile
           /\ pubKey[b] = NoFile

C8_Witness ==
  \E a \in Names, b \in Names :
    Renamed(a, b) /\ b \in result.created /\ a \in result.orphansRemoved

\* C9: when a directory matches folders of two configured identities, two
\* `zzk git where` queries made with the same identity store from the same
\* directory report the same identity.
C9_RepeatedQuerySameIdentity ==
  (/\ whereOut # NoQuery
   /\ whereBefore # NoQuery
   /\ whereOut.store = whereBefore.store
   /\ whereOut.dir = whereBefore.dir)
  => whereOut.name = whereBefore.name

C11_RunStateSavedOnlyOnSuccess ==
  [][/\ (pc = "idle" /\ pc' # "idle" /\ stateFile = NoFile) =>
          state' = NewState /\ state'.identities = <<>> /\ stateFile' = NoFile
     /\ stateFile' # stateFile =>
          /\ pc = "globals"
          /\ trace'.globals = "ok"
          /\ globalFiles' = [gitconfig |-> RenderGitConfig(cfg),
                             sshconfig |-> RenderSSHConfig(cfg),
                             signers |-> RenderAllowedSigners(cfg)]
          /\ stateFile' = state'
     /\ (pc = "globals" /\ trace'.globals = "failed") =>
          /\ out'.exit # 0
          /\ stateFile' = stateFile]_vars

C11_Witness ==
  /\ pc = "done"
  /\ trace.globals = "failed"
  /\ out.exit # 0
  /\ stateFile # NoFile
  /\ \E o \in trace.cleaned :
       /\ o \in DOMAIN stateFile.identities
       /\ privKey[o] = NoFile
       /\ o \notin DOMAIN state.identities

\* The identities of the running Sync that hit a hard stop.
HardStopped == trace.keygenFailed \cup trace.gitcfgFailed

\* C12: an identity that hit a hard stop is not in Verified; it is in Created
\* exactly when its key was generated in this run before the git config write
\* failed; the folders made for it and that key are still there.
C12_HardStopNotRolledBack ==
  pc \in {"process", "globals", "done"} =>
    \A n \in HardStopped :
      /\ n \in result.failed
      /\ n \notin result.verified
      /\ n \in result.created <=>
           (n \in trace.gitcfgFailed /\ n \in trace.gen /\ n \notin trace.keygenFailed)
      /\ trace.made[n] \subseteq dirs
      /\ n \in result.created =>
           /\ privKey[n] = NewPrivKey(cfg[n])
           /\ pubKey[n] = NewPubKey(cfg[n])

C12_Witness ==
  /\ pc = "done"
  /\ \E n \in trace.gitcfgFailed :
       /\ n \in result.created
       /\ privKey[n] # NoFile
       /\ trace.made[n] # {}
  /\ \E n \in trace.keygenFailed : n \notin result.created /\ trace.made[n] # {}

\* The identities of the running Sync for which a folder could not be
\* created, the agent registration failed or the connectivity probe failed.
SoftFailed ==
  trace.mkdirFailed
  \cup {n \in DOMAIN trace.agent : trace.agent[n] = "failed"}
  \cup {n \in DOMAIN trace.probe : trace.probe[n] = "failed"}

\* The files of every orphan of the running Sync are gone.
OrphanFilesDeleted ==
  \A o \in trace.orphans :
    /\ privKey[o] = NoFile
    /\ pubKey[o] = NoFile
    /\ homePub[o] = NoFile
    /\ gitCfg[o] = NoFile

\* C13: a failed folder creation, agent registration, connectivity probe,
\* backup or backup rotation puts no identity in Failed and does not end the
\* run: the identity goes through its remaining steps, the orphans are removed
\* also after a failed backup, every identity is processed and the global
\* config writers run; without another failure Sync returns no error.
C13_SoftFailuresContinue ==
  /\ InSync => result.failed = HardStopped
  /\ \A n \in trace.mkdirFailed :
       n \in trace.gen \/ HadKeyPair(n)
  /\ \A n \in DOMAIN trace.agent :
       trace.agent[n] = "failed" => n \in DOMAIN trace.probe
  /\ (trace.backup = "failed" \/ trace.rotate = "failed") =>
       /\ pc # "done" => pc \in {"cleanup", "process", "globals"}
       /\ CleanupOver => trace.cleaned = trace.orphans /\ OrphanFilesDeleted
  /\ pc = "done" =>
       /\ trace.cleaned = trace.orphans
       /\ trace.processed = DOMAIN cfg
       /\ trace.globals # "none"
       /\ trace.globals = "ok" => out.exit = 0

C13_Witness ==
  /\ pc = "done"
  /\ trace.backup = "failed"
  /\ trace.orphans # {}
  /\ \E o \in trace.orphans : trace.startPub[o] # NoFile /\ pubKey[o] = NoFile
  /\ SoftFailed # {}
  /\ result.failed = {}
  /\ out.exit = 0

C13_WitnessRotation ==
  pc = "done" /\ trace.rotate = "failed" /\ out.exit = 0

\* C14: the list detectOrphans returns holds exactly the names of the two
\* scans that are not keys of the config, each of them once, and no name the
\* config holds; it is the list Sync cleans up.
C14_OrphansExact ==
  InSync =>
    /\ Range(trace.orphanList) = (trace.scannedKeys \cup trace.scannedConfigs) \ DOMAIN cfg
    /\ \A i, j \in 1..Len(trace.orphanList) :
         trace.orphanList[i] = trace.orphanList[j] => i = j
    /\ \A n \in DOMAIN cfg : n \notin Range(trace.orphanList)
    /\ Range(trace.orphanList) = trace.orphans

C14_Witness ==
  /\ pc = "cleanup"
  /\ Len(trace.orphanList) = 2
  /\ \E n \in Range(trace.orphanList) : n \in trace.scannedKeys \cap trace.scannedConfigs
  /\ \E n \in DOMAIN cfg : n \in trace.scannedKeys \cup trace.scannedConfigs

\* The positions of the folders of identity n that exist in the directories d.
ExistingFolders(n, d) ==
  {i \in 1..Len(cfg[n].folders) : Clean(ExpandPath(cfg[n].folders[i])) \in d}

\* C15: the step of Sync that reaches the connectivity test of an identity
\* runs the probe from the first folder of its list that exists then; when
\* none exists the probe is skipped and the identity is neither in Verified
\* nor in Failed.
C15_ProbeFromFirstExistingFolder ==
  [][\A n \in Names :
       (pc = "process" /\ n \in DOMAIN trace'.probe /\ n \notin DOMAIN trace.probe) =>
         IF ExistingFolders(n, dirs') = {}
         THEN /\ trace'.probe[n] = "skipped"
              /\ trace'.probeDir[n] = <<>>
              /\ n \notin result'.verified
              /\ n \notin result'.failed
         ELSE /\ trace'.probe[n] \in {"ok", "failed"}
              /\ \E i \in ExistingFolders(n, dirs') :
                   /\ \A j \in ExistingFolders(n, dirs') : i <= j
                   /\ trace'.probeDir[n] = ExpandPath(cfg[n].folders[i])]_vars

\* The probe of an identity ran from its second folder, the first one missing,
\* or was skipped for want of a folder.
C15_Witness ==
  /\ pc = "done"
  /\ \E n \in DOMAIN trace.probeDir :
       /\ Len(cfg[n].folders) = 2
       /\ trace.probeDir[n] = ExpandPath(cfg[n].folders[2])
       /\ Clean(ExpandPath(cfg[n].folders[1])) \notin dirs

C15_WitnessSkipped ==
  /\ pc = "done"
  /\ \E n \in DOMAIN trace.probe :
       trace.probe[n] = "skipped" /\ n \notin result.verified /\ n \notin result.failed

C15_WitnessBothExist ==
  /\ pc = "done"
  /\ \E n \in DOMAIN trace.probeDir :
       /\ Len(cfg[n].folders) = 2
       /\ ExistingFolders(n, dirs) = {1, 2}
       /\ trace.probe[n] = "ok"

\* The probe was run and its result classified.
Probed == call.fn = "TestSSHConnection" /\ call.chdirOK

\* The output holds one of the success phrases; it holds "Permission denied".
SaysSuccess ==
  \E w \in Range(call.output) : w \in {"successfully authenticated", "Hi ", "Welcome to "}
SaysDenied == \E w \in Range(call.output) : w = "Permission denied"

\* C16: TestSSHConnection returns success when the output holds a success
\* phrase, whatever the exit status and also next to "Permission denied";
\* else the permission-denied error when the output holds "Permission denied";
\* else the generic failure when ssh did not exit with status 0; else success.
C16_ProbeClassification ==
  Probed =>
    /\ SaysSuccess => ret.err = ""
    /\ (~SaysSuccess /\ SaysDenied) => ret.err = "permission denied"
    /\ (~SaysSuccess /\ ~SaysDenied /\ call.exit # 0) => ret.err = "SSH test failed"
    /\ (~SaysSuccess /\ ~SaysDenied /\ call.exit = 0) => ret.err = ""

C16_Witness ==
  /\ Probed
  /\ SaysSuccess
  /\ SaysDenied
  /\ call.exit = 255
  /\ ret.err = ""

\* RotateBackups was called; the files of a listing that match the pattern.
Rotated == call.fn = "RotateBackups"
Matching(files) ==
  {f \in files : f.name.prefix = "git-orphans-" /\ f.name.suffix = ".tar.gz"}

\* C17: RotateBackups(dir, keep) deletes nothing when at most keep archives
\* match; else, when no deletion fails, the keep most recently modified
\* matching archives remain and all other matching archives are gone; files
\* that do not match are never touched.
C17_RotateKeepsNewest ==
  Rotated =>
    /\ Cardinality(Matching(call.files)) <= call.keep =>
         ret.files = call.files /\ ~ret.err
    /\ (Cardinality(Matching(call.files)) > call.keep /\ ~call.removeFails) =>
         /\ ~ret.err
         /\ Cardinality(Matching(ret.files)) = call.keep
         /\ \A k \in Matching(ret.files), d \in Matching(call.files) \ ret.files : k.ts > d.ts
    /\ ret.files \subseteq call.files
    /\ call.files \ Matching(call.files) \subseteq ret.files

C17_Witness ==
  /\ Rotated
  /\ Cardinality(Matching(call.files)) > call.keep + 1
  /\ call.keep > 0
  /\ ~call.removeFails
  /\ Cardinality(call.files \ Matching(call.files)) = 2
  /\ Cardinality(Matching(ret.files)) = call.keep

\* C18 as stated: after a deletion that fails, every other archive beyond the
\* keep newest is still deleted.
C18_RotationContinuesPastFailure ==
  (Rotated /\ call.removeFails) =>
    /\ ret.err
    /\ Cardinality(Matching(ret.files)) = call.keep + 1

\* C18 as amended: a deletion that fails is returned as the error of
\* RotateBackups and ends the rotation: only the archives removed before it
\* are gone, every archive not yet removed stays.
C18_RotationStopsAtFailure ==
  (Rotated /\ call.removeFails) =>
    /\ ret.err
    /\ Cardinality(Matching(ret.files)) = Cardinality(Matching(call.files)) - call.deleted
    /\ Cardinality(Matching(ret.files)) > call.keep

C18_Witness ==
  /\ Rotated
  /\ call.removeFails
  /\ call.deleted > 0
  /\ ret.err
  /\ Cardinality(Matching(ret.files)) > call.keep + 1

\* C19: RotateBackups returns the error of the first deletion that fails, and
\* the archives that follow the failing one in the deletion order (newest
\* first, from position keep on) are all left in the directory; those before
\* it are gone.
C19_RotationAbortsOnFirstError ==
  (Rotated /\ call.removeFails) =>
    /\ ret.err
    /\ \E f \in Matching(ret.files) :
         /\ Cardinality({a \in Matching(call.files) : a.ts > f.ts}) = call.keep + call.deleted
         /\ \A a \in Matching(call.files) : a.ts < f.ts => a \in ret.files
         /\ \A a \in Matching(call.files) :
              (a.ts > f.ts /\ Cardinality({b \in Matching(call.files) : b.ts > a.ts}) >= call.keep)
                => a \notin ret.files

C19_Witness ==
  /\ Rotated
  /\ call.removeFails
  /\ ret.err
  /\ call.deleted = 1
  /\ Cardinality(Matching(ret.files)) = call.keep + 2
  /\ Cardinality(Matching(call.files)) = call.keep + 3

\* BackupFiles was called; every file of its list exists.
BackedUp == call.fn = "BackupFiles"
AllListedExist == \A i \in 1..Len(call.files) : call.fsys[call.files[i]] # NoFile

\* name is path without its directory part.
IsBaseNameOf(name, path) ==
  /\ name # <<>>
  /\ \A i \in 1..Len(name) : name[i] # "/"
  /\ \E dir \in {SubSeq(path, 1, k) : k \in 0..Len(path)} : path = dir \o <<"/">> \o name

\* C20: BackupFiles with an empty list returns an error and leaves no archive;
\* with a list of existing files (and the archive file created) it returns no
\* error and leaves one archive that holds one entry per listed file, in the
\* order of the list, each named by the base name of its file and holding its
\* content, also when two listed files share a base name.
C20_BackupOneEntryPerFile ==
  BackedUp =>
    /\ call.files = <<>> => ret.err # "" /\ ret.archive = NoFile
    /\ (call.files # <<>> /\ AllListedExist /\ call.createOK) =>
         /\ ret.err = ""
         /\ ret.archive # NoFile
         /\ Len(ret.archive.entries) = Len(call.files)
         /\ \A i \in 1..Len(call.files) :
              /\ IsBaseNameOf(ret.archive.entries[i].name, call.files[i])
              /\ ret.archive.entries[i].data = call.fsys[call.files[i]]

C20_Witness ==
  /\ BackedUp
  /\ ret.err = ""
  /\ Len(call.files) = 2
  /\ call.files[1] # call.files[2]
  /\ Len(ret.archive.entries) = 2
  /\ ret.archive.entries[1].name = ret.archive.entries[2].name
  /\ ret.archive.entries[1].data # ret.archive.entries[2].data

C20_WitnessEmpty ==
  BackedUp /\ call.files = <<>> /\ ret.err = "no files to backup" /\ ret.archive = NoFile

\* The expected files of the orphans of the running Sync that exist.
ExistingOrphanFiles == {p \in UNION {OrphanFiles(o) : o \in trace.orphans} : StatOK(p)}

\* Sync has made its backup and has not yet removed anything.
JustBackedUp == pc = "cleanup" /\ trace.cleaned = {}

\* C21: the list Sync hands to BackupFiles holds exactly the expected files of
\* the orphans that exist; the archive of a successful backup holds exactly
\* these files; with no such file no backup is made; and a backup never fails
\* for a file that is not there.
C21_OnlyExistingFilesBackedUp ==
  /\ pc = "backup" => filesToBackup = ExistingOrphanFiles
  /\ (JustBackedUp /\ trace.backup = "ok") =>
       \E a \in archives :
         /\ a.ts = clock
         /\ a.entries = {[name |-> Base(p), data |-> ReadFile(p)] : p \in ExistingOrphanFiles}
  /\ (JustBackedUp /\ trace.backup = "skipped") => ExistingOrphanFiles = {}
  /\ trace.backup = "failed" => trace.backupErr \in {"create", "write"}

\* A backup succeeded for an orphan of which one expected file exists and
\* another one is missing.
C21_Witness ==
  /\ JustBackedUp
  /\ trace.backup = "ok"
  /\ \E o \in trace.orphans :
       /\ \E p \in OrphanFiles(o) : StatOK(p)
       /\ \E p \in OrphanFiles(o) : ~StatOK(p)

\* The key steps of Sync ran for an identity; its key pair was there before.
KeyStepped == call.fn = "SyncKeySteps"
KeyExistedBefore == call.priv # NoFile /\ call.pub # NoFile

C22_WitnessCopied ==
  KeyStepped /\ ret.created /\ call.home = OldPubKey /\ ret.home = ret.pub /\ ret.reported

C22_WitnessExisted ==
  KeyStepped /\ KeyExistedBefore /\ call.home = OldPubKey /\ ret.home = OldPubKey

\* C22 in a whole Sync run: ~/<name>_key.pub of a configured identity whose
\* key pair existed when Sync started is as it was then, and
\* CopyPublicKeyToHome was called for an identity exactly when its key is in
\* Created.
C22_InSync ==
  InSync =>
    /\ \A n \in DOMAIN cfg : HadKeyPair(n) => homePub[n] = trace.startHome[n]
    /\ \A n \in DOMAIN trace.copy : trace.copy[n].called <=> n \in result.created
    /\ \A n \in DOMAIN trace.copy :
         (trace.copy[n].called /\ trace.copy[n].reported) => homePub[n] = pubKey[n]

\* e is some text, "@", some text, ".", and at least two more characters,
\* none of them a "." or an "@".
HasEmailShape(e) ==
  \E at \in 2..Len(e) : \E dot \in (at + 2)..(Len(e) - 2) :
    /\ e[at] = "@"
    /\ e[dot] = "."
    /\ \A i \in (dot + 1)..Len(e) : e[i] \notin {".", "@"}

\* The record of the identity store has what the specification asks of it.
RecordValid(r) ==
  /\ r.user # ""
  /\ r.email # <<>>
  /\ r.domain # ""
  /\ Len(r.folders) >= 1
  /\ \A i \in 1..Len(r.folders) : r.folders[i] # <<>>
  /\ HasEmailShape(r.email)

\* C23: LoadConfig succeeds only on a store whose records are all valid; when
\* one record is invalid it returns an error and no config; on success the
\* config has the names of the store as keys, every identity carries its key
\* as Name and the fields of its record; and LoadConfig after a SaveConfig of
\* a loaded config returns that config.
C23_LoadValidatesAll ==
  /\ call.fn = "LoadConfig" =>
       /\ ret.err = "" =>
            /\ call.store.kind = "json"
            /\ \A n \in DOMAIN call.store.identities : RecordValid(call.store.identities[n])
            /\ DOMAIN ret.config = DOMAIN call.store.identities
            /\ \A n \in DOMAIN ret.config :
                 /\ ret.config[n].name = n
                 /\ ret.config[n].user = call.store.identities[n].user
                 /\ ret.config[n].email = call.store.identities[n].email
                 /\ ret.config[n].domain = call.store.identities[n].domain
                 /\ ret.config[n].folders = call.store.identities[n].folders
       /\ ret.err # "" => ret.config = <<>>
       /\ (call.store.kind = "json"
           /\ \E n \in DOMAIN call.store.identities : ~RecordValid(call.store.identities[n]))
            => ret.err # "" /\ ret.config = <<>>
  /\ (call.fn = "SaveConfig" /\ call.writeOK) =>
       /\ ret.err = ""
       /\ ret.config = call.config

\* A store with a valid and an invalid record was refused.
C23_Witness ==
  /\ call.fn = "LoadConfig"
  /\ call.store.kind = "json"
  /\ \E n \in DOMAIN call.store.identities : RecordValid(call.store.identities[n])
  /\ \E n \in DOMAIN call.store.identities : ~HasEmailShape(call.store.identities[n].email)
  /\ ret.err = "invalid identity"

C23_WitnessRoundTrip ==
  /\ call.fn = "SaveConfig"
  /\ call.writeOK
  /\ Cardinality(DOMAIN call.config) = 2
  /\ call.old \notin ValidStores
  /\ ret.config = call.config

C23_WitnessLoaded ==
  /\ call.fn = "LoadConfig"
  /\ ret.err = ""
  /\ Cardinality(DOMAIN ret.config) = 2

\* Identity.SSHKeyPath, SSHPubKeyPath and GitConfigPath, and the files they
\* name once ExpandPath has been applied.
SSHKeyPath(n) == <<"~", "/", ".ssh", "/">> \o n \o <<"_key">>
SSHPubKeyPath(n) == <<"~", "/", ".ssh", "/">> \o n \o <<"_key", ".pub">>
IdentityGitConfigPath(n) == <<"~", "/", ".gitconfig-">> \o n
ConfiguredFiles(n) ==
  {ExpandPath(SSHKeyPath(n)), ExpandPath(SSHPubKeyPath(n)), ExpandPath(IdentityGitConfigPath(n))}

\* C24: a step of the orphan clean-up leaves the private key, the public key
\* and the git config file of every identity of the current config as they
\* were.
C24_CleanupSparesConfigured ==
  [][(pc = "cleanup" /\ trace'.cleaned # trace.cleaned) =>
       \A n \in DOMAIN cfg : \A p \in ConfiguredFiles(n) : ReadFile(p)' = ReadFile(p)]_vars

\* The names with an entry in the run-state file.
SavedNames(file) == IF file = NoFile THEN {} ELSE DOMAIN file.identities

\* This Sync call returned without error and saved the run state.
SyncSaved == pc = "done" /\ out.exit = 0 /\ stateFile = state

\* C25 as stated: in the run state a successful Sync has saved, the names
\* with an entry are exactly the keys of the config of that Sync.
C25_StateEntriesAreConfigKeys ==
  SyncSaved => SavedNames(stateFile) = DOMAIN cfg

\* C25 as amended: when Sync saves the run state, every configured identity
\* has an entry, those in Failed included, and no name cleaned up as an orphan
\* in that run has one; every other entry was in the file before and is kept.
C25_StateCoversConfig ==
  [][stateFile' # stateFile =>
       /\ DOMAIN cfg \subseteq SavedNames(stateFile')
       /\ result.failed \subseteq SavedNames(stateFile')
       /\ result.orphansRemoved \cap SavedNames(stateFile') = {}
       /\ SavedNames(stateFile') \subseteq DOMAIN cfg \cup SavedNames(stateFile)
       /\ \A n \in SavedNames(stateFile') \ DOMAIN cfg :
            stateFile'.identities[n] = stateFile.identities[n]]_vars

\* The saved run state holds the entry of an identity that failed in the run
\* before, left the config and was no orphan, and the entry of an identity
\* that failed in this run.
C25_Witness ==
  /\ SyncSaved
  /\ \E n \in SavedNames(stateFile) \ DOMAIN cfg : n \in hist.failed /\ n \notin trace.orphans
  /\ result.failed # {}

C25_WitnessOrphan ==
  /\ SyncSaved
  /\ \E n \in result.orphansRemoved : n \in DOMAIN hist.cfg /\ n \notin SavedNames(stateFile)

\* Directory dir is the folder or lies beneath it in the directory tree.
Beneath(dir, folder) == dir = folder \/ IsPrefix(folder \o <<"/">>, dir)

\* One of the folders of the identity record holds the directory.
Governs(identity, dir) ==
  \E i \in 1..Len(identity.folders) :
    Beneath(Clean(dir), Clean(ExpandPath(identity.folders[i])))

\* C26: the identity `zzk git where` reports for a directory has a folder that
\* is the directory or an ancestor of it, and when no configured folder is,
\* the query ends with an error and no identity.
C26_DetectByDirectoryTree ==
  whereOut # NoQuery =>
    LET config == LoadConfig(whereOut.store).config IN
      /\ ~whereOut.err => Governs(config[whereOut.name], whereOut.dir)
      /\ (\A n \in DOMAIN config : ~Governs(config[n], whereOut.dir)) =>
           whereOut.err /\ whereOut.name = <<>>

\* C27: when BackupFiles has succeeded in the orphan clean-up of Sync, the
\* archive it wrote is still in the backup directory after the call of
\* RotateBackups(dir, 10) that follows, and when that call returns no error
\* the directory holds at most 10 archives.
C27_NewArchiveSurvivesRotation ==
  [][(pc = "backup" /\ trace'.backup = "ok") =>
       /\ NewArchive(filesToBackup) \in archives'
       /\ trace'.rotate = "ok" => Cardinality(archives') <= KeepBackups]_vars

\* A rotation after a backup removed old archives and kept the new one.
C27_Witness ==
  /\ pc = "cleanup"
  /\ trace.backup = "ok"
  /\ trace.rotate = "ok"
  /\ OldArchives \ archives # {}
  /\ Cardinality(archives) = KeepBackups
  /\ \E a \in archives : a.ts = clock /\ a.entries # {}

\* A rotation after a backup failed and left more than 10 archives, the new
\* one among them.
C27_WitnessRotateFailed ==
  /\ pc = "cleanup"
  /\ trace.backup = "ok"
  /\ trace.rotate = "failed"
  /\ Cardinality(archives) > KeepBackups
  /\ \E a \in archives : a.ts = clock /\ a.entries # {}

\* C28: a Config of the Claude providers that came from LoadConfig has, after
\* any calls of AddProvider, RemoveProvider, SetActive and ClearActive, an
\* active name that is empty or is one of its providers; RemoveProvider of
\* the active provider leaves the active name empty; SetActive and
\* RemoveProvider of a name that is not configured return an error and leave
\* the Config as it was.
C28_ActiveIsConfigured ==
  claudeConfig # NoConfig =>
    /\ claudeConfig.active = "" \/ claudeConfig.active \in DOMAIN claudeConfig.providers
    /\ (claudeCall.fn = "RemoveProvider" /\ ~claudeCall.err
         /\ claudeCall.before.active = claudeCall.id) => claudeConfig.active = ""
    /\ (claudeCall.fn \in {"SetActive", "RemoveProvider"}
         /\ claudeCall.id \notin DOMAIN claudeCall.before.providers) =>
           claudeCall.err /\ claudeConfig = claudeCall.before

\* The active provider was removed while another provider stayed.
C28_Witness ==
  /\ claudeConfig # NoConfig
  /\ claudeCall.fn = "RemoveProvider"
  /\ ~claudeCall.err
  /\ claudeCall.before.active = claudeCall.id
  /\ claudeConfig.providers # <<>>

\* SetActive was called with a template that is not configured, while
\* another provider was active.
C28_WitnessUnconfigured ==
  /\ claudeConfig # NoConfig
  /\ claudeCall.fn = "SetActive"
  /\ claudeCall.id \in Templates \ DOMAIN claudeCall.before.providers
  /\ claudeCall.before.active # ""

\* LoadConfig read a file whose active name is not among its providers.
C28_WitnessLoadedBroken ==
  /\ claudeConfig # NoConfig
  /\ claudeCall.fn = "LoadConfig"
  /\ claudeCall.file.kind = "json"
  /\ claudeCall.file.active \notin DOMAIN claudeCall.file.providers \cup {""}
  /\ claudeCall.file.providers # <<>>

\* restoreBackup was called and has returned.
Restored == call.fn = "restoreBackup"

\* One of the checks of the download did not pass: curl failed, the file is
\* not a tar.xz archive, the test extraction failed, or nothing came out at
\* the path of the target.
RestoreCheckFailed ==
  \/ call.failAt \in {"curl", "testExtract"}
  \/ verifyTarXz(call.archive) # ""
  \/ call.archive.entry = "none"

C29_WitnessRenamed ==
  /\ Restored
  /\ ret.renamed
  /\ ret.err = ""
  /\ \E b \in ret.backups : b.stamp = RestoreStamp

\* The test extraction failed with a target directory in place.
C29_WitnessTestExtract ==
  /\ Restored
  /\ call.target # NoDir
  /\ call.failAt = "testExtract"
  /\ verifyTarXz(call.archive) = ""
  /\ ret.err = "archive extraction test failed"

\* restoreBackup returned where only the temporary archive had been made.
C29_WitnessNoTestDir ==
  /\ Restored
  /\ call.target # NoDir
  /\ call.failAt = "mkdirTemp"
  /\ ret.line = 57

\* C30: when restoreBackup has moved the target directory to a backup
\* directory and the extraction to the home directory fails, the previous
\* directory is at the path of the target again when restoreBackup returns.
C30_PreviousDirectoryRestored ==
  (Restored /\ ret.renamed /\ ret.err = "failed to extract archive") =>
    ret.target = call.target

\* The extraction failed after it had written files of the target, and the
\* previous directory is still in its backup directory.
C30_LeftInBackup ==
  /\ Restored /\ ret.renamed /\ ret.err = "failed to extract archive"
  /\ call.partial = "files"
  /\ ret.target.content = "files"
  /\ \E b \in ret.backups : b.stamp = RestoreStamp /\ b.content = "old"

\* The extraction failed before it wrote anything, and the previous directory
\* is nowhere: cleanupOldBackups had removed its backup directory, the one
\* with the oldest modification time.
C30_PreviousDirectoryLost ==
  /\ Restored /\ ret.renamed /\ ret.err = "failed to extract archive"
  /\ call.partial = "none"
  /\ ret.target = NoDir
  /\ \A b \in ret.backups : b.stamp # RestoreStamp

\* Apart from these two cases the previous directory is back: the extraction
\* left nothing or an empty directory at the path of the target, and the
\* backup directory was not removed.
C30_RestoredOtherwise ==
  (Restored /\ ret.renamed /\ ret.err = "failed to extract archive"
   /\ call.partial # "files"
   /\ (call.target.mtime > 1 \/ Cardinality(call.backups) < TargetKeepBackups
       \/ ~call.removeOK)) =>
    ret.target = call.target
====
